---- MODULE Spec2Model ----
(***************************************************************************)
(* Model of the per-group registry + trend store of the Minecraft status   *)
(* plugin (script/json_operate.py) and of the two writers that use it      *)
(* (main.py: the interactive get_img handler and the hourly sampler).      *)
(*                                                                         *)
(* A container is the JSON object of one group file.  `servers` is a       *)
(* Python dict, whose iteration order is its insertion order: it is a      *)
(* sequence of <<key, val>> entries.  `trends` maps a key to its history.  *)
(* DEFAULT_CONFIG is the module-level dict of json_operate.py; read_json   *)
(* returns that very object for a missing file and migrate_old_format      *)
(* copies it shallowly, so the model tracks which parts of the dict an     *)
(* operation works on are shared with it.                                  *)
(***************************************************************************)
EXTENDS Integers, Sequences, FiniteSets, TLC

VARIABLES files, DEFAULT_CONFIG, now, last, ret, steps, log, hnd, smp

vars == <<files, DEFAULT_CONFIG, now, last, ret, steps, log, hnd, smp>>

\* ---------------------------------------------------------------- bounds
MaxSteps == 3
MaxServers == 3
MaxAppends == 3
StartHour == 100
MaxTicks == 3
MaxQueries == 2
MaxChartLen == 3
MaxFaults == 2
MaxPlugins == 2
MaxHours == 1

\* ------------------------------------------------------ program constants
CURRENT_VERSION == "2.3"
HOUR == 3600
MAX_HISTORY == 24
AUTO_CLEANUP_DAYS == 10
None == -1
MIN_SLEEP == 10
BACKOFF == 300
MARGIN_LEFT == 70
MARGIN_RIGHT == 36
Y_TICK_STEP == 5
MIN_Y_MAX == 5
CHART_WIDTH == 820

\* ------------------------------------------------------------ input sets
Groups == {"gA", "gB"}
Names == {"a", "2", ""}
Hosts == {"h1", "h2"}
NoArg == "<none>"
Counts == {1, 2}

\* str(int) and int(str) on the ids the model uses
DecStr == <<"1", "2", "3", "4", "5", "6", "7", "8", "9">>

IntToStr(n) == DecStr[n]

IsIntStr(s) == \E n \in DOMAIN DecStr : DecStr[n] = s

StrToInt(s) == CHOOSE n \in DOMAIN DecStr : DecStr[n] = s

Identifiers == {"1", "2", "a"}

\* ------------------------------------------------- dict (insertion order)
Keys(d) == {d[i].key : i \in DOMAIN d}

Has(d, k) == \E i \in DOMAIN d : d[i].key = k

Get(d, k) == d[CHOOSE i \in DOMAIN d : d[i].key = k].val

Put(d, k, v) ==
    IF Has(d, k)
    THEN [i \in DOMAIN d |-> IF d[i].key = k THEN [key |-> k, val |-> v] ELSE d[i]]
    ELSE Append(d, [key |-> k, val |-> v])

DelKey(d, k) == SelectSeq(d, LAMBDA e : e.key # k)

EmptyTrends == [k \in {} |-> <<>>]

\* ------------------------------------------------------------ containers
InitialDefaultConfig ==
    [version |-> CURRENT_VERSION, next_id |-> 1, servers |-> <<>>,
     last_cleanup |-> None, trends |-> EmptyTrends]

NoFile == [absent |-> TRUE]

\* a file that cannot be read or does not hold valid JSON
Unreadable == [unreadable |-> TRUE]

LegacyEntry(n, h) == [isServer |-> TRUE, name |-> n, host |-> h]

LegacyJunk == [isServer |-> FALSE, name |-> "", host |-> ""]

LegacyFiles ==
    { [entries |-> <<LegacyEntry("a", "h1")>>],
      [entries |-> <<LegacyEntry("2", "h1"), LegacyJunk, LegacyEntry("a", "h2")>>] }

IsContainer(f) == "version" \in DOMAIN f

is_old_format(f) ==
    /\ "entries" \in DOMAIN f
    /\ Len(f.entries) > 0
    /\ "version" \notin DOMAIN f
    /\ \E i \in DOMAIN f.entries : f.entries[i].isServer

MigratedRecord(id, e) ==
    [id |-> id, name |-> e.name, host |-> e.host, created_time |-> None,
     last_success_time |-> None, last_failed_time |-> None, failed_count |-> None]

RECURSIVE MigrateLoop(_, _, _, _)
MigrateLoop(entries, i, servers, next_id) ==
    IF i > Len(entries) THEN [servers |-> servers, next_id |-> next_id]
    ELSE IF entries[i].isServer
         THEN MigrateLoop(entries, i + 1,
                          Put(servers, IntToStr(next_id), MigratedRecord(next_id, entries[i])),
                          next_id + 1)
         ELSE MigrateLoop(entries, i + 1, servers, next_id)

\* new_data = DEFAULT_CONFIG.copy(): `servers` and `trends` stay the shared dicts
migrate_old_format(f, dc) ==
    LET r == MigrateLoop(f.entries, 1, dc.servers, 1)
    IN  [dc EXCEPT !.servers = r.servers, !.next_id = r.next_id]

\* the fold of the legacy field `trend: {server_id, history}` into `trends`:
\* existing = {int(ts): count} of the stored series, overwritten entry by entry
\* by the legacy history, then sorted(existing.items()) and the last 24 of it
LastCountAt(h, ts) ==
    h[CHOOSE i \in DOMAIN h : h[i].ts = ts /\ \A j \in DOMAIN h : h[j].ts = ts => j <= i].count

RECURSIVE SortedByTs(_, _, _)
SortedByTs(keys, stored, legacy) ==
    IF keys = {} THEN <<>>
    ELSE LET ts == CHOOSE t \in keys : \A u \in keys : t <= u
             cnt == IF \E i \in DOMAIN legacy : legacy[i].ts = ts
                    THEN LastCountAt(legacy, ts) ELSE LastCountAt(stored, ts)
         IN  <<[ts |-> ts, count |-> cnt]>> \o SortedByTs(keys \ {ts}, stored, legacy)

MergedHistory(stored, legacy) ==
    LET merged == SortedByTs({stored[i].ts : i \in DOMAIN stored}
                                \cup {legacy[i].ts : i \in DOMAIN legacy}, stored, legacy)
    IN  IF Len(merged) > 24 THEN SubSeq(merged, Len(merged) - 23, Len(merged)) ELSE merged

HasLegacyTrend(f) == "trend" \in DOMAIN f /\ f.trend.server_id # ""

FoldTrend(f) ==
    IF HasLegacyTrend(f)
    THEN LET sid == f.trend.server_id
             stored == IF sid \in DOMAIN f.trends THEN f.trends[sid] ELSE <<>>
         IN  [k \in DOMAIN f \ {"trend"} |->
                 IF k = "trends"
                 THEN (sid :> MergedHistory(stored, f.trend.history)) @@ f.trends
                 ELSE f[k]]
    ELSE f

\* What read_json returns and leaves behind: the data object, which parts of it
\* are the DEFAULT_CONFIG object ("whole", "nested", "none"), the file and
\* DEFAULT_CONFIG after the read.
ReadJson(f, dc) ==
    IF f = NoFile
    THEN [data |-> dc, alias |-> "whole", file |-> dc, dc |-> dc,
          created |-> TRUE, migrated |-> FALSE]
    ELSE IF is_old_format(f)
    THEN LET nd == migrate_old_format(f, dc)
         IN  [data |-> nd, alias |-> "nested", file |-> nd,
              dc |-> [dc EXCEPT !.servers = nd.servers],
              created |-> FALSE, migrated |-> TRUE]
    ELSE [data |-> FoldTrend(f), alias |-> "none", file |-> f, dc |-> dc,
          created |-> FALSE, migrated |-> FALSE]

\* DEFAULT_CONFIG after the caller mutated `d`, the object read_json returned
Aliased(rd, d) ==
    CASE rd.alias = "whole" -> d
      [] rd.alias = "nested" -> [rd.dc EXCEPT !.servers = d.servers, !.trends = d.trends]
      [] OTHER -> rd.dc

\* index of the first server named `name` in iteration order, 0 when none
get_server_by_name(data, name) ==
    LET hits == {i \in DOMAIN data.servers : data.servers[i].val.name = name}
    IN  IF hits = {} THEN 0 ELSE CHOOSE i \in hits : \A j \in hits : i <= j

\* name-exact, then id-exact: the resolution order reversed
Resolve_NameFirst(data, identifier) ==
    LET i == get_server_by_name(data, identifier)
    IN  IF i # 0 THEN data.servers[i].key
        ELSE IF Has(data.servers, identifier) THEN identifier ELSE NoArg

\* id-exact, then name-exact: the key of the server an identifier names, or NoArg
Resolve(data, identifier) ==
    IF Has(data.servers, identifier) THEN identifier
    ELSE LET i == get_server_by_name(data, identifier)
         IN  IF i = 0 THEN NoArg ELSE data.servers[i].key

\* --------------------------------------------------------------- trends
_hour_bucket(ts) == (ts \div HOUR) * HOUR

Point(ts, count) == [ts |-> ts, count |-> count]

LastN(h, n) == SubSeq(h, IF Len(h) > n THEN Len(h) - n + 1 ELSE 1, Len(h))

\* a merge and trim that keeps the oldest MAX_HISTORY entries
AppendPoint_KeepOldest(history, ts, count) ==
    LET ts_h == _hour_bucket(ts)
        merged == IF Len(history) > 0 /\ _hour_bucket(history[Len(history)].ts) = ts_h
                  THEN [history EXCEPT ![Len(history)] = Point(ts_h, count)]
                  ELSE Append(history, Point(ts_h, count))
    IN  IF Len(merged) > MAX_HISTORY THEN SubSeq(merged, 1, MAX_HISTORY) ELSE merged

\* a merge that never overwrites the last entry
AppendPoint_AlwaysAppend(history, ts, count) ==
    LET merged == Append(history, Point(_hour_bucket(ts), count))
    IN  IF Len(merged) > MAX_HISTORY THEN LastN(merged, MAX_HISTORY) ELSE merged

\* a merge that keeps the count already stored for the hour
AppendPoint_FirstWins(history, ts, count) ==
    LET ts_h == _hour_bucket(ts)
        merged == IF Len(history) > 0 /\ _hour_bucket(history[Len(history)].ts) = ts_h
                  THEN history
                  ELSE Append(history, Point(ts_h, count))
    IN  IF Len(merged) > MAX_HISTORY THEN LastN(merged, MAX_HISTORY) ELSE merged

\* the series after append_trend_point's merge and trim
AppendPoint(history, ts, count) ==
    LET ts_h == _hour_bucket(ts)
        merged == IF Len(history) > 0 /\ _hour_bucket(history[Len(history)].ts) = ts_h
                  THEN [history EXCEPT ![Len(history)] = Point(ts_h, count)]
                  ELSE Append(history, Point(ts_h, count))
    IN  IF Len(merged) > MAX_HISTORY THEN LastN(merged, MAX_HISTORY) ELSE merged

HistoryOf(trends, sid) == IF sid \in DOMAIN trends THEN trends[sid] ELSE <<>>

\* hist[:hours] when hours > 0, else hist
SliceHistory_Head(hist, hours) ==
    IF hours > 0 THEN SubSeq(hist, 1, IF Len(hist) > hours THEN hours ELSE Len(hist)) ELSE hist

\* a slice that treats hours <= 0 as "nothing"
SliceHistory_PositiveOnly(hist, hours) == IF hours > 0 THEN LastN(hist, hours) ELSE <<>>

\* hist[-hours:] when hours > 0, else hist
SliceHistory(hist, hours) == IF hours > 0 THEN LastN(hist, hours) ELSE hist

\* ------------------------------------------------------- call bookkeeping
\* `last` names the call that produced the current state and its boolean
\* outcome; `clash` tells that the call's identifier was both a key of `servers`
\* and the name of a server stored under another key, `raised` that read_json
\* raised inside the call.  `ret` is the value the
\* call returned when that is a record or a list (as a sequence).
NoCall == [op |-> "init", group |-> "", ok |-> FALSE, clash |-> FALSE, raised |-> FALSE]

Called(op, g, ok) == [op |-> op, group |-> g, ok |-> ok, clash |-> FALSE, raised |-> FALSE]

\* read_json raises (IOError, JSONDecodeError) on a file it cannot read or parse
ReadRaises(f) == "unreadable" \in DOMAIN f

\* the `except Exception` clause of a store operation: the error is logged and
\* the operation returns its failure value (False, None, {} or [])
Caught(op, g) ==
    /\ UNCHANGED <<files, DEFAULT_CONFIG>>
    /\ last' = [Called(op, g, FALSE) EXCEPT !.raised = TRUE]
    /\ ret' = <<>>

Clash(data, identifier) ==
    /\ Has(data.servers, identifier)
    /\ \E i \in DOMAIN data.servers :
          data.servers[i].val.name = identifier /\ data.servers[i].key # identifier

\* the file of group g and DEFAULT_CONFIG once the call ends: `d` is the data
\* object after the call's in-place changes, `written` whether write_json ran
Commit(g, rd, d, written) ==
    /\ files' = [files EXCEPT ![g] = IF written THEN d ELSE rd.file]
    /\ DEFAULT_CONFIG' = Aliased(rd, d)

Step == steps < MaxSteps /\ steps' = steps + 1

\* ------------------------------------------------------ registry operations
RECURSIVE FirstFree(_, _)
FirstFree(n, used) == IF n \in used THEN FirstFree(n + 1, used) ELSE n

UsedIds(servers) == {StrToInt(k) : k \in {x \in Keys(servers) : IsIntStr(x)}}

SetMax(S) == CHOOSE m \in S : \A x \in S : x <= m

\* the id taken from the stored counter
NewId_Counter(data) == data.next_id

NewId(data) == FirstFree(1, UsedIds(data.servers))

NewRecord(id, name, host, t) ==
    [id |-> id, name |-> name, host |-> host, created_time |-> t,
     last_success_time |-> t, last_failed_time |-> None, failed_count |-> 0]

\* a duplicate check against the keys of `servers`
NameTaken_ByKey(data, name) == Has(data.servers, name)

NameTaken(data, name) == get_server_by_name(data, name) # 0

\* get_all_servers: the `servers` mapping, {} when the read fails
GetAllServers(g) ==
    IF ReadRaises(files[g]) THEN Caught("servers", g) ELSE
    LET rd == ReadJson(files[g], DEFAULT_CONFIG)
        data == rd.data
    IN  /\ Commit(g, rd, data, FALSE)
        /\ last' = Called("servers", g, TRUE)
        /\ ret' = data.servers

AddData(g, name, host) ==
    IF ReadRaises(files[g]) THEN Caught("add", g) ELSE
    LET rd == ReadJson(files[g], DEFAULT_CONFIG)
        data == rd.data
        used_ids == UsedIds(data.servers)
        new_id == NewId(data)
        max_used == IF used_ids = {} THEN 0 ELSE SetMax(used_ids)
        d2 == [data EXCEPT
                 !.next_id = (IF max_used > new_id THEN max_used ELSE new_id) + 1,
                 !.servers = Put(@, IntToStr(new_id), NewRecord(new_id, name, host, now))]
    IN  /\ NameTaken(data, name) \/ Len(data.servers) < MaxServers
        /\ IF NameTaken(data, name)
           THEN Commit(g, rd, data, FALSE) /\ last' = Called("add", g, FALSE)
           ELSE Commit(g, rd, d2, TRUE) /\ last' = Called("add", g, TRUE)
        /\ ret' = <<>>

\* a removal that takes the server's series along
WithoutServer_Cascade(data, sid) ==
    [data EXCEPT !.servers = DelKey(@, sid),
                 !.trends = [k \in (DOMAIN @) \ {sid} |-> @[k]]]

\* del servers[server_id]
WithoutServer(data, sid) == [data EXCEPT !.servers = DelKey(@, sid)]

DelData(g, identifier) ==
    IF ReadRaises(files[g]) THEN Caught("del", g) ELSE
    LET rd == ReadJson(files[g], DEFAULT_CONFIG)
        data == rd.data
        sid == Resolve(data, identifier)
        d2 == WithoutServer(data, sid)
    IN  /\ IF sid = NoArg
           THEN Commit(g, rd, data, FALSE) /\ last' = Called("del", g, FALSE)
           ELSE /\ Commit(g, rd, d2, TRUE)
                /\ last' = [Called("del", g, TRUE) EXCEPT !.clash = Clash(data, identifier)]
        /\ ret' = <<>>

\* `if new_name and ...`: the empty string and an absent argument skip the check
NameConflict(data, sid, new_name) ==
    /\ new_name # NoArg
    /\ new_name # ""
    /\ new_name # Get(data.servers, sid).name
    /\ LET i == get_server_by_name(data, new_name)
       IN  i # 0 /\ data.servers[i].key # sid

UpdatedRecord(rec, new_name, new_host) ==
    [rec EXCEPT !.name = IF new_name # NoArg THEN new_name ELSE @,
                !.host = IF new_host # NoArg THEN new_host ELSE @]

UpdateData(g, identifier, new_name, new_host) ==
    IF ReadRaises(files[g]) THEN Caught("update", g) ELSE
    LET rd == ReadJson(files[g], DEFAULT_CONFIG)
        data == rd.data
        sid == Resolve(data, identifier)
        d2 == [data EXCEPT !.servers =
                 Put(@, sid, UpdatedRecord(Get(@, sid), new_name, new_host))]
    IN  /\ IF sid = NoArg \/ NameConflict(data, sid, new_name)
           THEN Commit(g, rd, data, FALSE) /\ last' = Called("update", g, FALSE)
           ELSE /\ Commit(g, rd, d2, TRUE)
                /\ last' = [Called("update", g, TRUE) EXCEPT !.clash = Clash(data, identifier)]
        /\ ret' = <<>>

GetServerInfo(g, identifier) ==
    IF ReadRaises(files[g]) THEN Caught("find", g) ELSE
    LET rd == ReadJson(files[g], DEFAULT_CONFIG)
        data == rd.data
        sid == Resolve(data, identifier)
    IN  /\ Commit(g, rd, data, FALSE)
        /\ IF sid = NoArg
           THEN last' = Called("find", g, FALSE) /\ ret' = <<>>
           ELSE /\ last' = [Called("find", g, TRUE) EXCEPT !.clash = Clash(data, identifier)]
                /\ ret' = <<Get(data.servers, sid)>>

\* bookkeeping whose success branch leaves failed_count alone
StatusRecord_KeepCount(rec, success, t) ==
    IF success
    THEN [rec EXCEPT !.last_success_time = t]
    ELSE [rec EXCEPT !.last_failed_time = t,
                     !.failed_count = (IF @ = None THEN 0 ELSE @) + 1]

StatusRecord(rec, success, t) ==
    IF success
    THEN [rec EXCEPT !.last_success_time = t, !.failed_count = 0]
    ELSE [rec EXCEPT !.last_failed_time = t,
                     !.failed_count = (IF @ = None THEN 0 ELSE @) + 1]

UpdateServerStatus(g, identifier, success) ==
    IF ReadRaises(files[g]) THEN Caught("status", g) ELSE
    LET rd == ReadJson(files[g], DEFAULT_CONFIG)
        data == rd.data
        sid == Resolve(data, identifier)
        d2 == [data EXCEPT !.servers = Put(@, sid, StatusRecord(Get(@, sid), success, now))]
    IN  /\ IF sid = NoArg
           THEN Commit(g, rd, data, FALSE) /\ last' = Called("status", g, FALSE)
           ELSE /\ Commit(g, rd, d2, TRUE)
                /\ last' = [Called("status", g, TRUE) EXCEPT !.clash = Clash(data, identifier)]
        /\ ret' = <<>>

\* ------------------------------------------------------------- cleanup
IntOr0(v) == IF v = None THEN 0 ELSE v

EffectiveLastOk(data, e) ==
    LET last_success_time == IntOr0(e.val.last_success_time)
        hist == HistoryOf(data.trends, e.key)
        latest_trend_ts == IF Len(hist) > 0 THEN hist[Len(hist)].ts ELSE 0
    IN  IF last_success_time > latest_trend_ts THEN last_success_time ELSE latest_trend_ts

CutoffTime(t) == t - AUTO_CLEANUP_DAYS * 24 * HOUR

\* an eviction test that looks at last_success_time alone
Stale_SuccessOnly(data, e, t) == IntOr0(e.val.last_success_time) < CutoffTime(t)

Stale(data, e, t) == EffectiveLastOk(data, e) < CutoffTime(t)

\* the entry of deleted_servers built for an evicted server
DeletedEntry(e) ==
    [id |-> e.key, name |-> e.val.name, host |-> e.val.host,
     last_success_time |-> e.val.last_success_time,
     failed_count |-> IntOr0(e.val.failed_count)]

\* a cleanup that stamps and writes the container on every call
AutoCleanupServers_AlwaysStamp(g) ==
    IF ReadRaises(files[g]) THEN Caught("cleanup", g) ELSE
    LET rd == ReadJson(files[g], DEFAULT_CONFIG)
        data == rd.data
        deleted == SelectSeq(data.servers, LAMBDA e : Stale(data, e, now))
        d2 == [data EXCEPT !.servers = SelectSeq(@, LAMBDA e : ~Stale(data, e, now)),
                           !.last_cleanup = now]
    IN  /\ Commit(g, rd, d2, TRUE)
        /\ last' = Called("cleanup", g, Len(deleted) > 0)
        /\ ret' = [i \in DOMAIN deleted |-> DeletedEntry(deleted[i])]

AutoCleanupServers(g) ==
    IF ReadRaises(files[g]) THEN Caught("cleanup", g) ELSE
    LET rd == ReadJson(files[g], DEFAULT_CONFIG)
        data == rd.data
        deleted == SelectSeq(data.servers, LAMBDA e : Stale(data, e, now))
        d2 == [data EXCEPT !.servers = SelectSeq(@, LAMBDA e : ~Stale(data, e, now)),
                           !.last_cleanup = now]
    IN  /\ IF Len(deleted) = 0
           THEN Commit(g, rd, data, FALSE) /\ last' = Called("cleanup", g, FALSE)
           ELSE Commit(g, rd, d2, TRUE) /\ last' = Called("cleanup", g, TRUE)
        /\ ret' = [i \in DOMAIN deleted |-> DeletedEntry(deleted[i])]

\* ------------------------------------------------------ trend operations
\* trends after setdefault(sid)...history and the merge/trim of the series
WithPoint(trends, sid, ts, count) ==
    (sid :> AppendPoint(HistoryOf(trends, sid), ts, count)) @@ trends

AppendTrendPoint(g, sid, ts, count) ==
    IF ReadRaises(files[g]) THEN Caught("append", g) ELSE
    LET rd == ReadJson(files[g], DEFAULT_CONFIG)
        data == rd.data
        d2 == [data EXCEPT !.trends = WithPoint(@, sid, ts, count)]
    IN  /\ Commit(g, rd, d2, TRUE)
        /\ last' = Called("append", g, TRUE)
        /\ ret' = <<>>

GetTrendHistory(g, sid, hours) ==
    IF ReadRaises(files[g]) THEN Caught("history", g) ELSE
    LET rd == ReadJson(files[g], DEFAULT_CONFIG)
        data == rd.data
    IN  /\ Commit(g, rd, data, FALSE)
        /\ last' = Called("history", g, TRUE)
        /\ ret' = SliceHistory(HistoryOf(data.trends, sid), hours)

\* the mapping sid -> slice that get_all_trend_histories builds
GetAllTrendHistories(g, hours) ==
    IF ReadRaises(files[g]) THEN Caught("histories", g) ELSE
    LET rd == ReadJson(files[g], DEFAULT_CONFIG)
        data == rd.data
    IN  /\ Commit(g, rd, data, FALSE)
        /\ last' = Called("histories", g, TRUE)
        /\ ret' = [sid \in DOMAIN data.trends |-> SliceHistory(data.trends[sid], hours)]

\* ------------------------------------------------------------ wall clock
StartTime == StartHour * HOUR

Tick ==
    /\ now < StartTime + MaxTicks * (HOUR \div 2)
    /\ now' = now + (HOUR \div 2)
    /\ UNCHANGED <<files, DEFAULT_CONFIG, last, ret, steps, log, hnd, smp>>

\* ============================================================== store level
\* Any sequence of store calls on the group files, one call at a time.
Idle == [pc |-> "idle"]

InitFiles == [Groups -> {NoFile} \cup LegacyFiles]

Init ==
    /\ files \in InitFiles
    /\ DEFAULT_CONFIG = InitialDefaultConfig
    /\ now = StartTime
    /\ last = NoCall
    /\ ret = <<>>
    /\ steps = 0
    /\ log = <<>>
    /\ hnd = Idle
    /\ smp = Idle

Frame == UNCHANGED <<now, log, hnd, smp>>

CallAdd == \E g \in Groups, n \in Names, h \in {"h1"} : Step /\ AddData(g, n, h) /\ Frame

CallDel == \E g \in Groups, i \in Identifiers : Step /\ DelData(g, i) /\ Frame

CallUpdate ==
    \E g \in Groups, i \in Identifiers, n \in {"2", "", NoArg}, h \in {"h2", NoArg} :
        Step /\ UpdateData(g, i, n, h) /\ Frame

CallFind == \E g \in Groups, i \in Identifiers : Step /\ GetServerInfo(g, i) /\ Frame

CallStatus ==
    \E g \in Groups, i \in Identifiers, ok \in BOOLEAN :
        Step /\ UpdateServerStatus(g, i, ok) /\ Frame

CallCleanup == \E g \in Groups : Step /\ AutoCleanupServers(g) /\ Frame

CallAppend ==
    \E g \in Groups : Step /\ AppendTrendPoint(g, "1", now, 1) /\ Frame

CallHistory == \E g \in Groups : Step /\ GetTrendHistory(g, "1", 1) /\ Frame

Next ==
    \/ CallAdd
    \/ CallDel
    \/ CallUpdate
    \/ CallFind
    \/ CallStatus
    \/ CallCleanup
    \/ CallAppend
    \/ CallHistory

Spec == Init /\ [][Next]_vars

\* ============================================================== trend level
\* append_trend_point and get_trend_history on the series of server "1" of one
\* group, fed with arbitrary timestamps around the series' latest one.  The
\* series starts as what hourly appends have built: 0, 1, 23 or 24 buckets.
\* `log` lists every append call made on the series, oldest first.
SeedSeries(n) == [i \in 1..n |-> Point(StartTime + (i - 1) * HOUR, 1 + (i % 2))]

SeedContainer(n) ==
    [InitialDefaultConfig EXCEPT
       !.next_id = 2,
       !.servers = <<[key |-> "1", val |-> NewRecord(1, "a", "h1", StartTime)]>>,
       !.trends = IF n = 0 THEN EmptyTrends ELSE ("1" :> SeedSeries(n))]

SeedLengths == {0, 1, MAX_HISTORY - 1, MAX_HISTORY}

InitTrend ==
    /\ \E n \in SeedLengths :
          /\ files = [g \in Groups |-> IF g = "gA" THEN SeedContainer(n) ELSE NoFile]
          /\ log = SeedSeries(n)
    /\ DEFAULT_CONFIG = InitialDefaultConfig
    /\ now = StartTime
    /\ last = NoCall
    /\ ret = <<>>
    /\ steps = 0
    /\ hnd = Idle
    /\ smp = Idle

LatestTs == IF Len(log) = 0 THEN StartTime ELSE log[Len(log)].ts

TrendTimes == {LatestTs - HOUR, LatestTs + (HOUR \div 2), LatestTs + HOUR, LatestTs + 2 * HOUR}

HoursInputs == {-1, 0, 1, 2, MAX_HISTORY, 7 * MAX_HISTORY}

TrendAppend ==
    \E ts \in TrendTimes, c \in Counts :
        /\ steps < MaxAppends
        /\ steps' = steps + 1
        /\ AppendTrendPoint("gA", "1", ts, c)
        /\ log' = Append(log, Point(ts, c))
        /\ UNCHANGED <<now, hnd, smp>>

TrendHistory ==
    \E hours \in HoursInputs :
        GetTrendHistory("gA", "1", hours) /\ UNCHANGED <<now, steps, log, hnd, smp>>

NextTrend == TrendAppend \/ TrendHistory

SpecTrend == InitTrend /\ [][NextTrend]_vars

Series == HistoryOf(files["gA"].trends, "1")

Bucketed(calls) == [i \in DOMAIN calls |-> Point(_hour_bucket(calls[i].ts), calls[i].count)]

IncreasingHours(calls) ==
    \A i \in 1..(Len(calls) - 1) : _hour_bucket(calls[i].ts) < _hour_bucket(calls[i + 1].ts)

AppendJustMade == Len(log') = Len(log) + 1

\* C1: every series holds at most 24 entries; an append that creates a new
\* bucket on a 24-entry series drops exactly the oldest entry and puts the new
\* bucket last; and after N > 24 appends at N distinct increasing hours the
\* series is exactly the 24 most recent buckets of the calls, in call order.
C1_RetentionBound ==
    /\ [](\A g \in Groups : IsContainer(files[g]) =>
             \A sid \in DOMAIN files[g].trends : Len(files[g].trends[sid]) <= 24)
    /\ [](IncreasingHours(log) =>
             /\ Len(Series) = (IF Len(log) > 24 THEN 24 ELSE Len(log))
             /\ \A i \in 1..Len(Series) :
                   Series[i] = Bucketed(log)[Len(log) - Len(Series) + i])
    /\ [][(/\ AppendJustMade
           /\ Len(Series) = 24
           /\ _hour_bucket(log'[Len(log')].ts) # Series[24].ts)
          => /\ Len(Series') = 24
             /\ \A i \in 1..23 : Series'[i] = Series[i + 1]
             /\ Series'[24] = Bucketed(log')[Len(log')]]_vars

C1_Witness ==
    /\ last.op = "append"
    /\ Len(log) > 24
    /\ IncreasingHours(log)
    /\ Len(Series) = 24
    /\ Series[1].ts = _hour_bucket(log[Len(log) - 23].ts)

EntriesOfBucket(series, b) == {k \in DOMAIN series : _hour_bucket(series[k].ts) = b}

LatestCallOfBucket(calls, b) ==
    CHOOSE j \in DOMAIN calls :
        /\ _hour_bucket(calls[j].ts) = b
        /\ \A k \in DOMAIN calls : _hour_bucket(calls[k].ts) = b => k <= j

C4_AppendThenRead ==
    (last.op = "history" /\ Len(log) > 0) =>
        /\ Len(ret) > 0
        /\ ret[Len(ret)].ts = (log[Len(log)].ts \div 3600) * 3600
        /\ ret[Len(ret)].count = log[Len(log)].count
        /\ \E i \in DOMAIN ret :
              ret[i] = [ts |-> (log[Len(log)].ts \div 3600) * 3600, count |-> log[Len(log)].count]

C4_Witness ==
    /\ last.op = "history"
    /\ steps >= 1
    /\ Len(ret) >= 2
    /\ log[Len(log)].ts % 3600 # 0
    /\ ret[Len(ret)].ts = log[Len(log)].ts - (log[Len(log)].ts % 3600)

\* ============================================================= system level
\* The two writers of main.py on the same group files, interleaved at their
\* awaits while the wall clock advances: get_img (probe, update_server_status,
\* then append_trend_point with the clock read after the probe) and one sweep
\* after another of _bar_data_loop (scan of the group files, one clock read,
\* then per host a probe and an append per target with that one timestamp).
\* append_trend_point suspends between its read_json and its write_json.
Probes == {0} \cup Counts

SysContainer(name) ==
    [InitialDefaultConfig EXCEPT
       !.next_id = 2,
       !.servers = <<[key |-> "1", val |-> NewRecord(1, name, "h1", StartTime)]>>]

InitSys ==
    /\ files = [g \in Groups |-> IF g = "gA" THEN SysContainer("a") ELSE SysContainer("2")]
    /\ DEFAULT_CONFIG = InitialDefaultConfig
    /\ now = StartTime
    /\ last = NoCall
    /\ ret = <<>>
    /\ steps = 0
    /\ log = <<>>
    /\ hnd = Idle
    /\ smp = [pc |-> "scan"]

\* the part of append_trend_point up to the end of its read_json
AppendRead(g) ==
    LET rd == ReadJson(files[g], DEFAULT_CONFIG)
    IN  /\ files' = [files EXCEPT ![g] = rd.file]
        /\ DEFAULT_CONFIG' = rd.dc

\* DEFAULT_CONFIG after the data read has been changed in memory to d2
ConfigAfter(alias, d2) ==
    CASE alias = "whole" -> d2
      [] alias = "nested" -> [DEFAULT_CONFIG EXCEPT !.servers = d2.servers,
                                                   !.trends = d2.trends]
      [] OTHER -> DEFAULT_CONFIG

\* the rest of append_trend_point: merge, trim and write_json of the data read
AppendWrite(g, sid, ts, count, data, alias) ==
    LET d2 == [data EXCEPT !.trends = WithPoint(@, sid, ts, count)]
    IN  /\ files' = [files EXCEPT ![g] = d2]
        /\ DEFAULT_CONFIG' = ConfigAfter(alias, d2)
        /\ last' = Called("append", g, TRUE)
        /\ ret' = <<>>

\* get_img(server_name, host, server_id, json_path) for a server of a group
HandlerStart ==
    \E g \in Groups :
        /\ hnd.pc = "idle"
        /\ steps < MaxQueries
        /\ IsContainer(files[g])
        /\ \E i \in DOMAIN files[g].servers :
              hnd' = [pc |-> "probe", g |-> g, sid |-> files[g].servers[i].key]
        /\ steps' = steps + 1
        /\ UNCHANGED <<files, DEFAULT_CONFIG, now, last, ret, log, smp>>

\* info = await get_server_status(host): 0 stands for no answer
HandlerProbe ==
    \E info \in Probes :
        /\ hnd.pc = "probe"
        /\ hnd' = [pc |-> "status", g |-> hnd.g, sid |-> hnd.sid, info |-> info]
        /\ UNCHANGED <<files, DEFAULT_CONFIG, now, last, ret, steps, log, smp>>

HandlerStatus ==
    /\ hnd.pc = "status"
    /\ UpdateServerStatus(hnd.g, hnd.sid, hnd.info # 0)
    /\ hnd' = IF hnd.info = 0 THEN Idle
              ELSE [pc |-> "append", g |-> hnd.g, sid |-> hnd.sid, info |-> hnd.info]
    /\ UNCHANGED <<now, steps, log, smp>>

\* append_trend_point(json_path, str(server_id), int(datetime.now().timestamp()), ...)
HandlerAppendRead ==
    LET rd == ReadJson(files[hnd.g], DEFAULT_CONFIG)
    IN  /\ hnd.pc = "append"
        /\ AppendRead(hnd.g)
        /\ hnd' = [pc |-> "write", g |-> hnd.g, sid |-> hnd.sid, info |-> hnd.info,
                   ts |-> now, data |-> rd.data, alias |-> rd.alias]
        /\ UNCHANGED <<now, last, ret, steps, log, smp>>

HandlerAppendWrite ==
    /\ hnd.pc = "write"
    /\ AppendWrite(hnd.g, hnd.sid, hnd.ts, hnd.info, hnd.data, hnd.alias)
    /\ hnd' = Idle
    /\ UNCHANGED <<now, steps, log, smp>>

\* host_map of one sweep: per host, the (file, sid) pairs that reference it
GroupOrder == <<"gA", "gB">>

\* a host map that keeps one pair per group file
RECURSIVE TargetsOf_OnePerFile(_, _, _)
TargetsOf_OnePerFile(host, gi, acc) ==
    IF gi > Len(GroupOrder) THEN acc
    ELSE LET g == GroupOrder[gi]
             sv == IF IsContainer(files[g]) THEN files[g].servers ELSE <<>>
             mine == SelectSeq(sv, LAMBDA e : e.val.host = host)
         IN  TargetsOf_OnePerFile(host, gi + 1,
                 acc \o (IF Len(mine) = 0 THEN <<>> ELSE <<<<g, mine[1].key>>>>))

RECURSIVE TargetsOf(_, _, _)
TargetsOf(host, gi, acc) ==
    IF gi > Len(GroupOrder) THEN acc
    ELSE LET g == GroupOrder[gi]
             sv == IF IsContainer(files[g]) THEN files[g].servers ELSE <<>>
             mine == SelectSeq(sv, LAMBDA e : e.val.host = host)
         IN  TargetsOf(host, gi + 1, acc \o [i \in DOMAIN mine |-> <<g, mine[i].key>>])

HostOrder == <<"h1", "h2">>

HostMap ==
    SelectSeq([i \in DOMAIN HostOrder |->
                  [host |-> HostOrder[i], targets |-> TargetsOf(HostOrder[i], 1, <<>>)]],
              LAMBDA m : Len(m.targets) > 0)

\* the scan of the group files, then now_ts = int(datetime.now().timestamp())
\* `log` lists what the current sweep has done so far: the get_server_status
\* calls with their answer and the append_trend_point calls with their arguments
SweepProbe(host, info) ==
    [ev |-> "probe", host |-> host, group |-> "", sid |-> "", ts |-> 0, count |-> info]

SweepAppend(host, g, sid, ts, count) ==
    [ev |-> "append", host |-> host, group |-> g, sid |-> sid, ts |-> ts, count |-> count]

\* an append_trend_point call of the sweep that returned False
SweepFailed(host, g, sid, ts, count) ==
    [ev |-> "failed", host |-> host, group |-> g, sid |-> sid, ts |-> ts, count |-> count]

\* the (host, file, sid) entries of host_map as the scan built it
RECURSIVE SweepTargets(_, _)
SweepTargets(hm, ts) ==
    IF Len(hm) = 0 THEN <<>>
    ELSE [i \in DOMAIN Head(hm).targets |->
             [ev |-> "target", host |-> Head(hm).host, group |-> Head(hm).targets[i][1],
              sid |-> Head(hm).targets[i][2], ts |-> ts, count |-> 0]]
         \o SweepTargets(Tail(hm), ts)

SamplerScan ==
    /\ smp.pc = "scan"
    /\ smp' = [pc |-> "probe", now_ts |-> now, hosts |-> HostMap]
    /\ log' = SweepTargets(HostMap, now)
    /\ UNCHANGED <<files, DEFAULT_CONFIG, now, last, ret, steps, hnd>>

NextHour(t) == _hour_bucket(t) + HOUR

\* max(10, int((next_hour - now).total_seconds())), the clock read in whole seconds
SleepSeconds_NoFloor(t) == NextHour(t) - t

SleepSeconds(t) == IF NextHour(t) - t < MIN_SLEEP THEN MIN_SLEEP ELSE NextHour(t) - t

\* await asyncio.sleep(secs), entered at the current time
Sleeping(secs) == [pc |-> "sleep", wake |-> now + secs, secs |-> secs]

\* status = await get_server_status(host) for the next host of the sweep; after
\* the last host the loop sleeps until the next hour boundary
SamplerProbe ==
    \E info \in Probes :
        /\ smp.pc = "probe"
        /\ IF Len(smp.hosts) = 0
           THEN smp' = Sleeping(SleepSeconds(now)) /\ log' = log
           ELSE /\ log' = Append(log, SweepProbe(Head(smp.hosts).host, info))
                /\ IF info = 0
                   THEN smp' = [smp EXCEPT !.hosts = Tail(@)]
                   ELSE smp' = [pc |-> "append", now_ts |-> smp.now_ts,
                                hosts |-> Tail(smp.hosts), host |-> Head(smp.hosts).host,
                                cnt |-> info, targets |-> Head(smp.hosts).targets]
        /\ UNCHANGED <<files, DEFAULT_CONFIG, now, last, ret, steps, hnd>>

SamplerAppendRead ==
    /\ smp.pc = "append"
    /\ IF Len(smp.targets) = 0
       THEN /\ smp' = [pc |-> "probe", now_ts |-> smp.now_ts, hosts |-> smp.hosts]
            /\ UNCHANGED <<files, DEFAULT_CONFIG, log, last, ret>>
       ELSE LET g == Head(smp.targets)[1]
                sid == Head(smp.targets)[2]
                rd == ReadJson(files[g], DEFAULT_CONFIG)
            IN  IF ReadRaises(files[g])
                THEN /\ Caught("append", g)
                     /\ smp' = [smp EXCEPT !.targets = Tail(@)]
                     /\ log' = log \o <<SweepAppend(smp.host, g, sid, smp.now_ts, smp.cnt),
                                        SweepFailed(smp.host, g, sid, smp.now_ts, smp.cnt)>>
                ELSE /\ AppendRead(g)
                     /\ smp' = [pc |-> "write", now_ts |-> smp.now_ts, hosts |-> smp.hosts,
                                host |-> smp.host, cnt |-> smp.cnt, targets |-> smp.targets,
                                data |-> rd.data, alias |-> rd.alias]
                     /\ log' = Append(log, SweepAppend(smp.host, g, sid, smp.now_ts, smp.cnt))
                     /\ UNCHANGED <<last, ret>>
    /\ UNCHANGED <<now, steps, hnd>>

SamplerAppendWrite ==
    /\ smp.pc = "write"
    /\ AppendWrite(Head(smp.targets)[1], Head(smp.targets)[2], smp.now_ts, smp.cnt,
                   smp.data, smp.alias)
    /\ smp' = [pc |-> "append", now_ts |-> smp.now_ts, hosts |-> smp.hosts,
               host |-> smp.host, cnt |-> smp.cnt, targets |-> Tail(smp.targets)]
    /\ UNCHANGED <<now, steps, log, hnd>>

SamplerWake ==
    /\ smp.pc = "sleep"
    /\ now >= smp.wake
    /\ smp' = [pc |-> "scan"]
    /\ UNCHANGED <<files, DEFAULT_CONFIG, now, last, ret, steps, log, hnd>>

NextSys ==
    \/ HandlerStart
    \/ HandlerProbe
    \/ HandlerStatus
    \/ HandlerAppendRead
    \/ HandlerAppendWrite
    \/ SamplerScan
    \/ SamplerProbe
    \/ SamplerAppendRead
    \/ SamplerAppendWrite
    \/ SamplerWake
    \/ Tick

SpecSys == InitSys /\ [][NextSys]_vars

\* C2: with both writers appending to the same containers, every trend series
\* has strictly increasing bucket timestamps (so at most one entry per hour).
C2_SeriesOrdered ==
    \A g \in Groups :
        IsContainer(files[g]) =>
            \A sid \in DOMAIN files[g].trends :
                \A i \in 1..(Len(files[g].trends[sid]) - 1) :
                    files[g].trends[sid][i].ts < files[g].trends[sid][i + 1].ts

\* ============================================================ store claims
ReadOnlyCall(op) == op \in {"find", "history"}

EmptyContainer(c) ==
    /\ IsContainer(c)
    /\ Len(c.servers) = 0
    /\ DOMAIN c.trends = {}
    /\ c.next_id = 1

\* C5: a call on one group's container leaves every other group's file as it
\* was, and the container that a first read creates for a group without a file
\* has zero servers, zero trend series and next_id = 1, whatever was done to
\* other groups before.
C5_GroupIsolation ==
    [][/\ \A g \in Groups : files'[g] # files[g] => last'.group = g
       /\ \A g \in Groups :
             (files[g] = NoFile /\ files'[g] # NoFile /\ ReadOnlyCall(last'.op))
                => EmptyContainer(files'[g])]_vars

LegacyServers(f) == SelectSeq(f.entries, LAMBDA e : e.isServer)

ExpectedMigration(f) ==
    {[key |-> DecStr[i],
      val |-> [id |-> i, name |-> LegacyServers(f)[i].name, host |-> LegacyServers(f)[i].host,
               created_time |-> None, last_success_time |-> None,
               last_failed_time |-> None, failed_count |-> None]] :
        i \in 1..Len(LegacyServers(f))}

EntrySet(servers) == {servers[i] : i \in DOMAIN servers}

\* C6: in every reachable process state, a read of a legacy file (no version,
\* server objects at top level) persists a container whose `servers` holds
\* exactly one record per legacy server, ids 1..n in iteration order, and no
\* other record, with next_id = n + 1; the file is then in the current format.
C6_LegacyMigration ==
    [][\A g \in Groups :
          (is_old_format(files[g]) /\ files'[g] # files[g] /\ ReadOnlyCall(last'.op))
             => /\ IsContainer(files'[g])
                /\ ~is_old_format(files'[g])
                /\ Len(files'[g].servers) = Len(LegacyServers(files[g]))
                /\ EntrySet(files'[g].servers) = ExpectedMigration(files[g])
                /\ files'[g].next_id = Len(LegacyServers(files[g])) + 1]_vars

\* the registry a call on group g works on: the container its read returns
Registry(g) == ReadJson(files[g], DEFAULT_CONFIG).data

NamesOf(servers) == {servers[i].val.name : i \in DOMAIN servers}

\* C7: a successful add_data stores the new server under the smallest positive
\* integer that is not a key of `servers` when the call reads the registry, and
\* every record that was there keeps its key and its content.
C7_SmallestFreeId ==
    [][\A g \in Groups :
          (last'.op = "add" /\ last'.ok /\ last'.group = g) =>
             LET pre == Registry(g).servers
                 post == files'[g].servers
             IN  \E k \in DOMAIN DecStr :
                    /\ DecStr[k] \notin Keys(pre)
                    /\ \A j \in 1..(k - 1) : DecStr[j] \in Keys(pre)
                    /\ Keys(post) = Keys(pre) \cup {DecStr[k]}
                    /\ Len(post) = Len(pre) + 1
                    /\ Get(post, DecStr[k]).id = k
                    /\ \A key \in Keys(pre) : Get(post, key) = Get(pre, key)]_vars

\* a hole was filled: the newest entry has a smaller id than an older one
C7_Witness ==
    /\ last.op = "add"
    /\ last.ok
    /\ LET sv == files[last.group].servers
       IN  /\ Len(sv) >= 3
           /\ \E i \in 1..(Len(sv) - 1) : sv[i].val.id > sv[Len(sv)].val.id

\* C8: add_data with a name that a server of the registry already has returns
\* failure and writes nothing: the group file is the file the call found (for
\* a file not yet in the current format, the file as the call's read left it).
C8_DuplicateNameOnAdd ==
    [][\A g \in Groups, n \in Names, h \in Hosts :
          (/\ last'.op = "add"
           /\ last'.group = g
           /\ n \in NamesOf(Registry(g).servers)
           /\ AddData(g, n, h)) =>
             /\ last'.op = "add"
             /\ ~last'.ok
             /\ IsContainer(files[g]) => files'[g] = files[g]
             /\ ~IsContainer(files[g]) => files'[g] = ReadJson(files[g], DEFAULT_CONFIG).file
             /\ \A o \in Groups \ {g} : files'[o] = files[o]]_vars

C8_Witness ==
    /\ last.op = "add"
    /\ ~last.ok
    /\ IsContainer(files[last.group])
    /\ Len(files[last.group].servers) >= 1

NamedButNotKeyed(servers, s) ==
    {e \in EntrySet(servers) : e.val.name = s /\ e.key # s}

FirstNamed(servers, s) ==
    servers[CHOOSE i \in DOMAIN servers :
               /\ servers[i].val.name = s
               /\ \A j \in DOMAIN servers : servers[j].val.name = s => i <= j]

\* C10: del_data, update_data, get_server_info and update_server_status take an
\* identifier s first as a key of `servers` and as a name only when no such
\* key exists.  When s is a key, the record under that key is the one removed,
\* changed or returned, and every record that is merely named s stays as it
\* was; when s is no key but a name, the first record of that name is the one
\* acted on.
C10_IdentifierResolution ==
    [][\A g \in Groups, s \in Identifiers :
          LET pre == Registry(g).servers
              post == files'[g].servers
              others == NamedButNotKeyed(pre, s)
              op == last'.op
          IN  /\ (last'.group = g /\ Has(pre, s)) =>
                 /\ (op = "del" /\ DelData(g, s)) =>
                       /\ last'.ok
                       /\ ~Has(post, s)
                       /\ others \subseteq EntrySet(post)
                       /\ Len(post) = Len(pre) - 1
                 /\ (op = "find" /\ GetServerInfo(g, s)) =>
                       /\ last'.ok
                       /\ ret' = <<Get(pre, s)>>
                 /\ \A ok \in BOOLEAN :
                       (op = "status" /\ UpdateServerStatus(g, s, ok)) =>
                          /\ last'.ok
                          /\ others \subseteq EntrySet(post)
                          /\ Has(post, s)
                          /\ ok => Get(post, s).last_success_time = now
                          /\ ~ok => Get(post, s).last_failed_time = now
                 /\ \A n \in {"2", "", NoArg}, h \in {"h2", NoArg} :
                       (op = "update" /\ UpdateData(g, s, n, h)) =>
                          /\ others \subseteq EntrySet(post)
                          /\ Has(post, s)
                          /\ Get(post, s).id = Get(pre, s).id
                          /\ last'.ok =>
                                /\ n # NoArg => Get(post, s).name = n
                                /\ h # NoArg => Get(post, s).host = h
                          /\ ~last'.ok =>
                                /\ n # Get(pre, s).name
                                /\ \E e \in EntrySet(pre) : e.key # s /\ e.val.name = n
              /\ (last'.group = g /\ ~Has(pre, s) /\ s \in NamesOf(pre)) =>
                 /\ (op = "del" /\ DelData(g, s)) =>
                       /\ last'.ok
                       /\ FirstNamed(pre, s) \notin EntrySet(post)
                       /\ Len(post) = Len(pre) - 1
                 /\ (op = "find" /\ GetServerInfo(g, s)) =>
                       /\ last'.ok
                       /\ ret' = <<FirstNamed(pre, s).val>>]_vars

C10_Witness ==
    /\ last.op \in {"del", "update", "status", "find"}
    /\ last.ok
    /\ last.clash

\* ========================================================= aged registries
\* Store calls on registries that have been in use for a while: group gA holds
\* server 1 (added through add_data, last success around the cleanup cutoff,
\* with or without a trend series), server 2 (migrated from a legacy file: no
\* time fields, an old series) and the series of a removed server 3; the wall
\* clock stands AUTO_CLEANUP_DAYS after StartTime and advances between calls.
AgedServer(ls) ==
    [id |-> 1, name |-> "a", host |-> "h1", created_time |-> StartTime - HOUR,
     last_success_time |-> ls, last_failed_time |-> None, failed_count |-> 0]

OldSeries(upto) == <<Point(upto - HOUR, 2), Point(upto, 1)>>

AgedContainer(ls, t1) ==
    [InitialDefaultConfig EXCEPT
       !.next_id = 4,
       !.servers = <<[key |-> "1", val |-> AgedServer(ls)],
                     [key |-> "2", val |-> MigratedRecord(2, LegacyEntry("2", "h2"))]>>,
       !.trends = (IF t1 = None THEN EmptyTrends ELSE ("1" :> OldSeries(t1)))
                  @@ ("2" :> OldSeries(StartTime - HOUR))
                  @@ ("3" :> OldSeries(StartTime + HOUR))]

AgedContainers ==
    {AgedContainer(ls, t1) : ls \in {StartTime - 1, StartTime},
                             t1 \in {None, StartTime - HOUR, StartTime}}

RegStart == StartTime + AUTO_CLEANUP_DAYS * 24 * HOUR

InitReg ==
    /\ files \in {f \in [Groups -> AgedContainers \cup {NoFile}] :
                     f["gA"] # NoFile /\ f["gB"] = NoFile}
             \cup {f \in [Groups -> AgedContainers \cup {Unreadable}] :
                     f["gA"] # Unreadable /\ f["gB"] = Unreadable}
    /\ DEFAULT_CONFIG = InitialDefaultConfig
    /\ now = RegStart
    /\ last = NoCall
    /\ ret = <<>>
    /\ steps = 0
    /\ log = <<>>
    /\ hnd = Idle
    /\ smp = Idle

RegFrame == UNCHANGED <<now, log, hnd, smp>>

\* the container a call on group g works on: what read_json hands it
AsRead(g) == ReadJson(files[g], DEFAULT_CONFIG).data

\* `log` lists the add_data and update_server_status calls that took effect,
\* oldest first, each with the group and the key of the server it acted on
Event(g, key, ev) == [group |-> g, key |-> key, ev |-> ev]

RegAdd ==
    \E g \in Groups :
        /\ Step
        /\ AddData(g, "b", "h1")
        /\ log' = IF last'.ok THEN Append(log, Event(g, IntToStr(NewId(AsRead(g))), "add"))
                   ELSE log
        /\ UNCHANGED <<now, hnd, smp>>

RegDel == \E g \in Groups, i \in {"1", "2", "a"} : Step /\ DelData(g, i) /\ RegFrame

RegStatus ==
    \E g \in Groups, i \in {"1", "2", "9"}, ok \in BOOLEAN :
        /\ Step
        /\ UpdateServerStatus(g, i, ok)
        /\ log' = IF last'.ok
                   THEN Append(log, Event(g, Resolve(AsRead(g), i), IF ok THEN "ok" ELSE "fail"))
                   ELSE log
        /\ UNCHANGED <<now, hnd, smp>>

RegCleanup == \E g \in Groups : Step /\ AutoCleanupServers(g) /\ RegFrame

RegAppend ==
    \E g \in Groups, sid \in {"1", "2"} : Step /\ AppendTrendPoint(g, sid, now, 1) /\ RegFrame

RegUpdate ==
    \E g \in Groups, n \in {"c", NoArg}, h \in {"h2", NoArg} :
        Step /\ UpdateData(g, "1", n, h) /\ RegFrame

RegFind == \E g \in Groups, i \in {"1", "9"} : Step /\ GetServerInfo(g, i) /\ RegFrame

RegServers == \E g \in Groups : Step /\ GetAllServers(g) /\ RegFrame

RegHours == {-1, 0, 1, 2, 3}

RegHistory ==
    \E g \in Groups, sid \in {"1", "3", "9"}, hours \in RegHours :
        Step /\ GetTrendHistory(g, sid, hours) /\ RegFrame

RegHistories ==
    \E g \in Groups, hours \in RegHours :
        Step /\ GetAllTrendHistories(g, hours) /\ RegFrame

\* the wall clock moves on by a second or by an hour between two calls
RegClock ==
    /\ Step
    /\ now' \in {now + 1, now + HOUR}
    /\ UNCHANGED <<files, DEFAULT_CONFIG, last, ret, log, hnd, smp>>

NextReg ==
    \/ RegAdd
    \/ RegDel
    \/ RegUpdate
    \/ RegFind
    \/ RegServers
    \/ RegStatus
    \/ RegCleanup
    \/ RegAppend
    \/ RegHistory
    \/ RegHistories
    \/ RegClock

SpecReg == InitReg /\ [][NextReg]_vars

\* the age signal of the claim, written out: a missing or null value counts 0
LastOkSignal(c, e) ==
    LET ls == IF e.val.last_success_time = None THEN 0 ELSE e.val.last_success_time
        tr == IF e.key \in DOMAIN c.trends /\ Len(c.trends[e.key]) > 0
              THEN c.trends[e.key][Len(c.trends[e.key])].ts ELSE 0
    IN  IF ls >= tr THEN ls ELSE tr

TooOld(c, e) == LastOkSignal(c, e) < now - 10 * 24 * 3600

\* C11: auto_cleanup_servers evicts exactly the servers whose max(last success,
\* last trend bucket under their id) is strictly below now - 10 days, keeps the
\* others unchanged and in order, and returns one entry per evicted server, in
\* order, carrying its id, name and host.
C11_CleanupThreshold ==
    [][\A g \in Groups :
          (last'.op = "cleanup" /\ last'.group = g /\ ~last'.raised /\ AutoCleanupServers(g)) =>
              LET c == AsRead(g)
                  kept == SelectSeq(c.servers, LAMBDA e : ~TooOld(c, e))
                  gone == SelectSeq(c.servers, LAMBDA e : TooOld(c, e))
              IN  /\ files'[g].servers = kept
                  /\ Len(ret') = Len(gone)
                  /\ \A i \in DOMAIN gone :
                        /\ ret'[i].id = gone[i].key
                        /\ ret'[i].name = gone[i].val.name
                        /\ ret'[i].host = gone[i].val.host
                        /\ ret'[i].last_success_time = gone[i].val.last_success_time]_vars

\* an eviction next to a retained server whose signal sits exactly on the cutoff
C11_Witness ==
    /\ last.op = "cleanup"
    /\ last.group = "gA"
    /\ Len(ret) >= 1
    /\ \E i \in DOMAIN files["gA"].servers :
          LastOkSignal(files["gA"], files["gA"].servers[i]) = now - 10 * 24 * 3600

\* the failure calls on server `key` of group g since its last success call or
\* its add, counted from the end of the list of calls
RECURSIVE FailuresSince(_, _, _)
FailuresSince(calls, g, key) ==
    IF Len(calls) = 0 THEN 0
    ELSE LET c == calls[Len(calls)]
             rest == SubSeq(calls, 1, Len(calls) - 1)
         IN  IF c.group # g \/ c.key # key THEN FailuresSince(rest, g, key)
             ELSE IF c.ev = "fail" THEN 1 + FailuresSince(rest, g, key)
             ELSE 0

OtherFieldsKept(before, after, changed) ==
    \A f \in (DOMAIN before) \ changed : after[f] = before[f]

\* C12 (count): in every state the failed_count of a server (absent counting 0)
\* is the number of failure calls on it since its last success call or its add,
\* and is not negative.
C12_FailedCount ==
    \A g \in Groups :
        IsContainer(files[g]) =>
            \A i \in DOMAIN files[g].servers :
                LET e == files[g].servers[i]
                    n == IF e.val.failed_count = None THEN 0 ELSE e.val.failed_count
                IN  n >= 0 /\ n = FailuresSince(log, g, e.key)

\* C12 (frame): a success call changes only last_success_time and failed_count
\* of the addressed server, a failure call only last_failed_time and
\* failed_count; nothing else of the container changes; a call whose identifier
\* names no server returns False and leaves the container as it was read.
C12_StatusFrame ==
    \A g \in Groups, i \in {"1", "2", "9"}, ok \in BOOLEAN :
        (last'.op = "status" /\ last'.group = g /\ ~last'.raised /\ UpdateServerStatus(g, i, ok)) =>
            LET c == AsRead(g)
                known == \E j \in DOMAIN c.servers :
                            c.servers[j].key = i \/ c.servers[j].val.name = i
            IN  IF ~known
                THEN ~last'.ok /\ files'[g] = c
                ELSE /\ last'.ok
                     /\ [files'[g] EXCEPT !.servers = c.servers] = c
                     /\ Len(files'[g].servers) = Len(c.servers)
                     /\ \A j \in DOMAIN c.servers :
                           LET b == c.servers[j]
                               a == files'[g].servers[j]
                           IN  /\ a.key = b.key
                               /\ b.key # Resolve(c, i) => a = b
                               /\ b.key = Resolve(c, i) =>
                                     IF ok
                                     THEN /\ a.val.last_success_time = now
                                          /\ a.val.failed_count = 0
                                          /\ OtherFieldsKept(b.val, a.val,
                                                {"last_success_time", "failed_count"})
                                     ELSE /\ a.val.last_failed_time = now
                                          /\ OtherFieldsKept(b.val, a.val,
                                                {"last_failed_time", "failed_count"})

C12_StatusBookkeeping == []C12_FailedCount /\ [][C12_StatusFrame]_vars

\* a second failure in a row on a server, and a failure on the migrated record
C12_Witness ==
    /\ last.op = "status"
    /\ last.ok
    /\ Len(log) >= 2
    /\ \E i \in DOMAIN files["gA"].servers : files["gA"].servers[i].val.failed_count = 2

\* ------------------------------------------------------------ update effect
UpdateNames == {"2", "", NoArg}

UpdateHosts == {"h2", NoArg}

\* new_name is the name of a server other than the one the identifier resolves to
CollidesWithOther(c, sid, new_name) ==
    /\ new_name # NoArg
    /\ \E j \in DOMAIN c.servers : c.servers[j].key # sid /\ c.servers[j].val.name = new_name

\* C13: update_data fails and leaves the container unchanged when new_name is
\* the name of a different server; otherwise it sets exactly the provided ones
\* of name and host on the resolved server and changes nothing else of the
\* container; an identifier that names no server fails without a change.
C13_UpdateEffect ==
    [][\A g \in Groups, i \in Identifiers, n \in UpdateNames, h \in UpdateHosts :
          (last'.op = "update" /\ last'.group = g /\ UpdateData(g, i, n, h)) =>
              LET c == AsRead(g)
                  sid == Resolve(c, i)
              IN  IF sid = NoArg \/ CollidesWithOther(c, sid, n)
                  THEN ~last'.ok /\ files'[g] = c
                  ELSE /\ last'.ok
                       /\ [files'[g] EXCEPT !.servers = c.servers] = c
                       /\ Len(files'[g].servers) = Len(c.servers)
                       /\ \A j \in DOMAIN c.servers :
                             LET b == c.servers[j]
                                 a == files'[g].servers[j]
                             IN  /\ a.key = b.key
                                 /\ b.key # sid => a = b
                                 /\ b.key = sid =>
                                       /\ a.val.name = IF n = NoArg THEN b.val.name ELSE n
                                       /\ a.val.host = IF h = NoArg THEN b.val.host ELSE h
                                       /\ OtherFieldsKept(b.val, a.val, {"name", "host"})]_vars

\* -------------------------------------------------------------- no cascade
\* C14: del_data and auto_cleanup_servers remove entries of `servers` only: the
\* `trends` mapping is the same before and after, the series of a removed
\* server included; del_data removes exactly the resolved server; del_data on
\* an identifier that names no server returns False and changes nothing.
C14_NoCascade ==
    [][\A g \in Groups :
          LET c == AsRead(g)
          IN  /\ \A i \in {"1", "2", "a"} :
                    (last'.op = "del" /\ last'.group = g /\ ~last'.raised /\ DelData(g, i)) =>
                        IF Resolve(c, i) = NoArg
                        THEN ~last'.ok /\ files'[g] = c
                        ELSE /\ last'.ok
                             /\ files'[g].trends = c.trends
                             /\ IsContainer(files[g]) => files'[g].trends = files[g].trends
                             /\ files'[g].servers =
                                   SelectSeq(c.servers, LAMBDA e : e.key # Resolve(c, i))
                             /\ [files'[g] EXCEPT !.servers = c.servers] = c
              /\ (last'.op = "cleanup" /\ last'.group = g /\ ~last'.raised /\ AutoCleanupServers(g)) =>
                    /\ files'[g].trends = c.trends
                    /\ IsContainer(files[g]) => files'[g].trends = files[g].trends
                    /\ Keys(files'[g].servers) \subseteq Keys(c.servers)
                    /\ files'[g].next_id = c.next_id]_vars

\* a cleanup that evicts a server with a stored series, after a del_data that
\* removed the other server with a stored series: both series are still there
C14_Witness ==
    /\ last.op = "cleanup"
    /\ last.group = "gA"
    /\ Len(ret) = 1
    /\ ~Has(files["gA"].servers, "1")
    /\ ~Has(files["gA"].servers, "2")
    /\ {"1", "2"} \subseteq DOMAIN files["gA"].trends

\* ---------------------------------------------------------- history slicing
\* the last min(hours, len) entries of a series in stored order, all when hours <= 0
LastEntries(series, hours) ==
    LET n == IF hours <= 0 \/ hours > Len(series) THEN Len(series) ELSE hours
    IN  [i \in 1..n |-> series[Len(series) - n + i]]

StoredSeries(c, sid) == IF sid \in DOMAIN c.trends THEN c.trends[sid] ELSE <<>>

\* C15: get_trend_history returns the last min(hours, len) entries of the stored
\* series when hours > 0 and the whole series when hours <= 0, an empty sequence
\* for an id without a series; get_all_trend_histories returns that same slice
\* for every key of `trends`; neither changes the container.
C15_HistorySlicing ==
    [][\A g \in Groups, hours \in RegHours :
          LET c == AsRead(g)
          IN  /\ \A sid \in {"1", "3", "9"} :
                    (last'.op = "history" /\ last'.group = g /\ ~last'.raised /\ GetTrendHistory(g, sid, hours)) =>
                        /\ ret' = LastEntries(StoredSeries(c, sid), hours)
                        /\ files'[g] = c
                        /\ IsContainer(files[g]) => files'[g] = files[g]
              /\ (last'.op = "histories" /\ last'.group = g /\ ~last'.raised /\ GetAllTrendHistories(g, hours)) =>
                    /\ DOMAIN ret' = DOMAIN c.trends
                    /\ \A sid \in DOMAIN c.trends :
                          ret'[sid] = LastEntries(StoredSeries(c, sid), hours)
                    /\ files'[g] = c
                    /\ IsContainer(files[g]) => files'[g] = files[g]]_vars

\* a slice shorter than a three-entry series, read after an append
C15_Witness ==
    /\ last.op = "history"
    /\ last.group = "gA"
    /\ Len(ret) = 2
    /\ "1" \in DOMAIN files["gA"].trends
    /\ Len(files["gA"].trends["1"]) = 3
    /\ ret = SubSeq(files["gA"].trends["1"], 2, 3)

\* ============================================================ chart renderer
\* generate_bar_chart_image(history, server_name, hours) of script/bar_chart.py
\* as the function from its arguments to what it draws: the hourly timeline,
\* the count of each tick and the centre of each bar.  A history entry is a
\* dict whose "ts" may be missing (None here, read as 0 by `d.get("ts", 0) or
\* 0`).  A step that raises in Python (an index into an empty list, a division
\* by zero) yields RaisedChart.
BlankChart == [raised |-> FALSE, blank |-> TRUE, timeline |-> <<>>, counts |-> <<>>, xs |-> <<>>]

RaisedChart == [raised |-> TRUE, blank |-> FALSE, timeline |-> <<>>, counts |-> <<>>, xs |-> <<>>]

\* a fold in which the first entry of an hour wins
RECURSIVE RawBuckets_FirstWins(_, _, _)
RawBuckets_FirstWins(history, i, raw) ==
    IF i > Len(history) THEN raw
    ELSE LET ts == IF history[i].ts = None THEN 0 ELSE history[i].ts
             cnt == IF history[i].count = None THEN 0 ELSE history[i].count
         IN  RawBuckets_FirstWins(history, i + 1,
                        IF ts # 0 THEN raw @@ (_hour_bucket(ts) :> cnt) ELSE raw)

\* raw[hour_bucket(ts)] = cnt for every entry with a truthy ts, in input order
RECURSIVE RawBuckets(_, _, _)
RawBuckets(history, i, raw) ==
    IF i > Len(history) THEN raw
    ELSE LET ts == IF history[i].ts = None THEN 0 ELSE history[i].ts
             cnt == IF history[i].count = None THEN 0 ELSE history[i].count
         IN  RawBuckets(history, i + 1,
                        IF ts # 0 THEN (_hour_bucket(ts) :> cnt) @@ raw ELSE raw)

SetMin(S) == CHOOSE m \in S : \A x \in S : m <= x

\* a window that always starts at the oldest bucket
WindowStart_NoClamp(start_ts, end_ts, hrs) == start_ts

\* the clamp of start_ts to the last window_hours hours, window_hours = max(1, hrs)
WindowStart(start_ts, end_ts, hrs) ==
    LET window_hours == IF hrs > 1 THEN hrs ELSE 1
    IN  IF end_ts - start_ts > (window_hours - 1) * HOUR
        THEN end_ts - (window_hours - 1) * HOUR ELSE start_ts

\* while cur <= end_ts: timeline.append(cur); cur += 3600
RECURSIVE TimelineFrom(_, _)
TimelineFrom(cur, end_ts) ==
    IF cur <= end_ts THEN <<cur>> \o TimelineFrom(cur + HOUR, end_ts) ELSE <<>>

PLOT_X0 == MARGIN_LEFT

PLOT_W == CHART_WIDTH - MARGIN_LEFT - MARGIN_RIGHT

\* x_at(i) for i = 0..n-1 as the fraction num / den
x_at(i, n) ==
    IF n <= 1 THEN [num |-> 2 * PLOT_X0 + PLOT_W, den |-> 2]
    ELSE [num |-> 2 * n * PLOT_X0 + PLOT_W * (2 * i + 1), den |-> 2 * n]

\* math.ceil(a / float(b)) for a >= 0 and b > 0
CeilDiv(a, b) == (a + b - 1) \div b

\* an axis maximum without the headroom of one
y_max_NoHeadroom(max_c) ==
    LET target_top == IF max_c > 0 THEN max_c ELSE 0
        y == IF target_top > 0 THEN CeilDiv(target_top, Y_TICK_STEP) * Y_TICK_STEP
             ELSE MIN_Y_MAX
    IN  IF y < MIN_Y_MAX THEN MIN_Y_MAX ELSE y

\* target_top = max(0, max_c + 1), rounded up to a multiple of Y_TICK_STEP and
\* raised to MIN_Y_MAX
y_max(max_c) ==
    LET target_top == IF max_c + 1 > 0 THEN max_c + 1 ELSE 0
        y == IF target_top > 0 THEN CeilDiv(target_top, Y_TICK_STEP) * Y_TICK_STEP
             ELSE MIN_Y_MAX
    IN  IF y < MIN_Y_MAX THEN MIN_Y_MAX ELSE y

\* everything after the `if not raw` guard
ChartLayout(raw, hrs) ==
    IF DOMAIN raw = {} THEN RaisedChart
    ELSE LET start_ts == WindowStart(SetMin(DOMAIN raw), SetMax(DOMAIN raw), hrs)
             timeline == TimelineFrom(start_ts, SetMax(DOMAIN raw))
             n == Len(timeline)
         IN  IF n = 0 THEN RaisedChart
             ELSE [raised |-> FALSE, blank |-> FALSE, timeline |-> timeline,
                   counts |-> [i \in 1..n |-> IF timeline[i] \in DOMAIN raw
                                             THEN raw[timeline[i]] ELSE 0],
                   xs |-> [i \in 1..n |-> x_at(i - 1, n)],
                   y_max |-> y_max(SetMax({(IF timeline[i] \in DOMAIN raw
                                            THEN raw[timeline[i]] ELSE 0) : i \in 1..n}))]

\* a renderer without the `if not raw` early return
Chart_NoRawGuard(history, hrs) ==
    IF Len(history) = 0 THEN BlankChart
    ELSE ChartLayout(RawBuckets(history, 1, <<>>), hrs)

Chart(history, hrs) ==
    IF Len(history) = 0 THEN BlankChart
    ELSE LET raw == RawBuckets(history, 1, <<>>)
         IN  IF DOMAIN raw = {} THEN BlankChart ELSE ChartLayout(raw, hrs)

ChartBase == StartTime

ChartTs == {None, ChartBase, ChartBase + HOUR \div 2, ChartBase + HOUR,
            ChartBase + 2 * HOUR, ChartBase + 3 * HOUR}

ChartCounts == {0, 3, 4, 5}

ChartHistories ==
    UNION {[1..n -> [ts : ChartTs, count : ChartCounts]] : n \in 0..MaxChartLen}

ChartHours == {-1, 0, 1, 2, 3, MAX_HISTORY}

\* the mcdata handler about to render one history with the hours it resolved
InitChart ==
    /\ files = [g \in Groups |-> NoFile]
    /\ DEFAULT_CONFIG = InitialDefaultConfig
    /\ now = StartTime
    /\ last = NoCall
    /\ ret = <<>>
    /\ steps = 0
    /\ log = <<>>
    /\ smp = Idle
    /\ \E h \in ChartHistories, k \in ChartHours :
          hnd = [pc |-> "render", hist |-> h, hours |-> k]

Render ==
    /\ hnd.pc = "render"
    /\ ret' = Chart(hnd.hist, hnd.hours)
    /\ hnd' = [hnd EXCEPT !.pc = "rendered"]
    /\ last' = Called("chart", "", ~Chart(hnd.hist, hnd.hours).raised)
    /\ UNCHANGED <<files, DEFAULT_CONFIG, now, steps, log, smp>>

NextChart == Render

SpecChart == InitChart /\ [][NextChart]_vars

\* the entries of a history that carry a timestamp, and the hour of an entry
Usable(hist) == {i \in DOMAIN hist : hist[i].ts # None /\ hist[i].ts # 0}

HourOf(e) == e.ts - (e.ts % 3600)

\* C16: for a history with at least one usable entry the timeline is every
\* hour from the window start (the smallest bucket, or the largest bucket minus
\* max(1, hours) - 1 hours when that is later) to the largest bucket, in steps
\* of 3600, and the count of a tick is the count of the last entry in input
\* order whose ts falls in that hour, 0 when there is none.
C16_ChartGapFill ==
    (hnd.pc = "rendered" /\ Usable(hnd.hist) # {}) =>
        LET hist == hnd.hist
            hours == hnd.hours
            buckets == {HourOf(hist[i]) : i \in Usable(hist)}
            largest == CHOOSE b \in buckets : \A c \in buckets : c <= b
            smallest == CHOOSE b \in buckets : \A c \in buckets : b <= c
            span == ((IF hours >= 1 THEN hours ELSE 1) - 1) * 3600
            first == IF largest - span > smallest THEN largest - span ELSE smallest
            n == Len(ret.timeline)
        IN  /\ ~ret.raised /\ ~ret.blank
            /\ n = ((largest - first) \div 3600) + 1
            /\ Len(ret.counts) = n
            /\ \A i \in 1..n : ret.timeline[i] = first + (i - 1) * 3600
            /\ \A i \in 1..n :
                  LET here == {j \in Usable(hist) : HourOf(hist[j]) = ret.timeline[i]}
                  IN  IF here = {} THEN ret.counts[i] = 0
                      ELSE ret.counts[i] =
                              hist[CHOOSE j \in here : \A k \in here : k <= j].count

\* the two-hour gap of the example, and an hour written twice whose later count
\* is the one drawn
C16_Witness ==
    /\ hnd.pc = "rendered"
    /\ hnd.hours = 24
    /\ hnd.hist = <<[ts |-> ChartBase + 1800, count |-> 5], [ts |-> ChartBase, count |-> 3],
                    [ts |-> ChartBase + 7200, count |-> 5]>>
    /\ ret.timeline = <<ChartBase, ChartBase + 3600, ChartBase + 7200>>
    /\ ret.counts = <<3, 0, 5>>

\* C17: the renderer does not raise; an empty history and a history without a
\* usable timestamp give the blank canvas; a history whose entries fall in one
\* hour gives one tick, with the bar centred at the middle of the plot area.
C17_ChartEdgePolicy ==
    hnd.pc = "rendered" =>
        /\ ~ret.raised
        /\ last.ok
        /\ Usable(hnd.hist) = {} => (ret.blank /\ ret.timeline = <<>> /\ ret.counts = <<>>)
        /\ Usable(hnd.hist) # {} => ~ret.blank
        /\ (Usable(hnd.hist) # {}
            /\ \A i, j \in Usable(hnd.hist) : HourOf(hnd.hist[i]) = HourOf(hnd.hist[j])) =>
               /\ Len(ret.timeline) = 1
               /\ Len(ret.xs) = 1
               /\ 2 * ret.xs[1].num = ret.xs[1].den * (70 + (820 - 36))

C17_Witness ==
    /\ hnd.pc = "rendered"
    /\ Len(hnd.hist) = 1
    /\ hnd.hist[1].ts = ChartBase + 1800
    /\ ret.timeline = <<ChartBase>>
    /\ ret.xs = <<[num |-> 854, den |-> 2]>>

\* -------------------------------------------------------- storage failure
\* the Python value a store operation handed its caller, by its return type
ReturnKind ==
    CASE last.op \in {"add", "del", "update", "status", "append"} ->
            IF last.ok THEN "True" ELSE "False"
      [] last.op = "find" -> IF last.ok THEN "record" ELSE "None"
      [] last.op = "history" -> IF last.ok THEN "list" ELSE "None"
      [] last.op = "cleanup" -> "list"
      [] last.op \in {"servers", "histories"} -> "dict"
      [] OTHER -> "none"

\* one of the results of an ordinary not-found, conflict or empty lookup
OrdinaryFailureValue ==
    \/ ReturnKind \in {"False", "None"}
    \/ ReturnKind \in {"list", "dict"} /\ ret = <<>>

\* C18: a store operation whose read of the container fails tells its caller
\* so with something other than False, None, an empty mapping or an empty list.
C18_FailurePropagation == last.raised => ~OrdinaryFailureValue

\* ------------------------------------------------- cross-registry consistency
\* C19: whenever two group containers hold a trend entry for the same hour
\* under servers of the same host, the two entries carry the same count.
C19_CrossRegistryConsistency ==
    \A g1, g2 \in Groups :
        (g1 # g2 /\ IsContainer(files[g1]) /\ IsContainer(files[g2])) =>
            \A i1 \in DOMAIN files[g1].servers, i2 \in DOMAIN files[g2].servers :
                LET e1 == files[g1].servers[i1]
                    e2 == files[g2].servers[i2]
                    h1 == HistoryOf(files[g1].trends, e1.key)
                    h2 == HistoryOf(files[g2].trends, e2.key)
                IN  e1.val.host = e2.val.host =>
                        \A j1 \in DOMAIN h1, j2 \in DOMAIN h2 :
                            h1[j1].ts = h2[j2].ts => h1[j1].count = h2[j2].count

\* ============================================================= sampler sweep
\* The sampler alone over two group files that share host h1 (one of them
\* twice) and a second host h2, the first file readable or not, with the clock
\* advancing during the sweeps.
SweepServer(id, name, host) ==
    [key |-> IntToStr(id), val |-> NewRecord(id, name, host, StartTime)]

SweepFiles ==
    [g \in Groups |->
        IF g = "gA"
        THEN [InitialDefaultConfig EXCEPT
                !.next_id = 3,
                !.servers = <<SweepServer(1, "a", "h1"), SweepServer(2, "b", "h2")>>]
        ELSE [InitialDefaultConfig EXCEPT
                !.next_id = 4,
                !.servers = <<SweepServer(1, "c", "h1"), SweepServer(3, "d", "h1")>>]]

InitSweep ==
    /\ files \in {SweepFiles, [SweepFiles EXCEPT !["gA"] = Unreadable]}
    /\ DEFAULT_CONFIG = InitialDefaultConfig
    /\ now \in {StartTime, StartTime + HOUR \div 2}
    /\ last = NoCall
    /\ ret = <<>>
    /\ steps = 0
    /\ log = <<>>
    /\ hnd = Idle
    /\ smp = [pc |-> "scan"]

NextSweep ==
    \/ SamplerScan
    \/ SamplerProbe
    \/ SamplerAppendRead
    \/ SamplerAppendWrite
    \/ SamplerWake
    \/ Tick

SpecSweep == InitSweep /\ [][NextSweep]_vars

\* the events of a kind in `log`, and the (group, id) pairs that reference a host
SweepEvents(ev) == {i \in DOMAIN log : log[i].ev = ev}

PairsOf(host) ==
    UNION {{<<g, files[g].servers[i].key>> :
               i \in {j \in DOMAIN files[g].servers : files[g].servers[j].val.host = host}} :
           g \in {r \in Groups : IsContainer(files[r])}}

\* C20: when a sweep is over, every referenced host has been probed exactly
\* once; for a host that answered with count c, append_trend_point has been
\* called exactly once for every (container, id) pair of that host, with the
\* count c; for a host that did not answer, not at all; and all the calls of
\* the sweep carry one timestamp.
C20_SamplerFanOut ==
    smp.pc = "sleep" =>
        /\ \A h \in Hosts :
              Cardinality({i \in SweepEvents("probe") : log[i].host = h}) =
                 IF PairsOf(h) # {} THEN 1 ELSE 0
        /\ \A i \in SweepEvents("probe") :
              \A pr \in PairsOf(log[i].host) :
                  Cardinality({j \in SweepEvents("append") :
                                  /\ log[j].group = pr[1]
                                  /\ log[j].sid = pr[2]
                                  /\ log[j].host = log[i].host}) =
                     IF log[i].count # 0 THEN 1 ELSE 0
        /\ \A j \in SweepEvents("append") :
              /\ <<log[j].group, log[j].sid>> \in PairsOf(log[j].host)
              /\ \E i \in SweepEvents("probe") :
                    log[i].host = log[j].host /\ log[i].count = log[j].count /\ i < j
        /\ \A j, k \in SweepEvents("append") : log[j].ts = log[k].ts

\* a finished sweep in which both hosts answered, with different counts, while
\* the clock moved on during the sweep
C20_Witness ==
    /\ smp.pc = "sleep"
    /\ Cardinality(SweepEvents("probe")) = 2
    /\ Cardinality(SweepEvents("append")) = 4
    /\ \E i, j \in SweepEvents("append") : log[i].count # log[j].count
    /\ \E j \in SweepEvents("append") : _hour_bucket(log[j].ts) < _hour_bucket(now)

\* ------------------------------------------------------ sampler bookkeeping
\* the record of server `sid` in group file g
RecordOf(g, sid) == Get(files[g].servers, sid)

\* C21: when a sweep is over, every server that references a probed host
\* carries the outcome of the probe: after a failed probe a last_failed_time and
\* a failed_count above zero, after a successful one a failed_count of zero and
\* a last_success_time not before the sweep's timestamp.
C21_SamplerBookkeeping ==
    smp.pc = "sleep" =>
        \A i \in SweepEvents("probe") :
            \A pr \in PairsOf(log[i].host) :
                LET r == RecordOf(pr[1], pr[2])
                IN  IF log[i].count = 0
                    THEN r.last_failed_time # None /\ r.failed_count > 0
                    ELSE /\ r.failed_count = 0
                         /\ \A j \in SweepEvents("append") : r.last_success_time >= log[j].ts

\* ========================================================== sampler faults
\* The sampler alone, with the faults of its environment: a group file that
\* stops being readable, a write that fails, a directory listing that raises.
\* `steps` counts the faults; the clock moves between instants around the hour
\* boundaries.
Instants ==
    {StartTime + k * HOUR + d : k \in 0..MaxHours, d \in {0, BACKOFF, HOUR - 5}}

Pass ==
    /\ \E t \in Instants : t > now /\ now' = t
    /\ UNCHANGED <<files, DEFAULT_CONFIG, last, ret, steps, log, hnd, smp>>

\* a group file is damaged on disk
Corrupt ==
    \E g \in Groups :
        /\ steps < MaxFaults
        /\ IsContainer(files[g])
        /\ files' = [files EXCEPT ![g] = Unreadable]
        /\ steps' = steps + 1
        /\ UNCHANGED <<DEFAULT_CONFIG, now, last, ret, log, hnd, smp>>

\* a failed write that is not caught where it happens
SamplerAppendFails_Abort ==
    /\ smp.pc = "write"
    /\ steps < MaxFaults
    /\ steps' = steps + 1
    /\ smp' = Sleeping(BACKOFF)
    /\ log' = Append(log, SweepFailed(smp.host, Head(smp.targets)[1], Head(smp.targets)[2],
                                      smp.now_ts, smp.cnt))
    /\ UNCHANGED <<files, DEFAULT_CONFIG, now, last, ret, hnd>>

\* the rest of append_trend_point when write_json raises: the data read has been
\* changed in memory, the file is left as it was or truncated, the call
\* returns False and the sweep goes on with the next target
SamplerAppendFails ==
    /\ smp.pc = "write"
    /\ steps < MaxFaults
    /\ steps' = steps + 1
    /\ LET g == Head(smp.targets)[1]
           sid == Head(smp.targets)[2]
           d2 == [smp.data EXCEPT !.trends = WithPoint(@, sid, smp.now_ts, smp.cnt)]
       IN  /\ files' \in {files, [files EXCEPT ![g] = Unreadable]}
           /\ DEFAULT_CONFIG' = ConfigAfter(smp.alias, d2)
           /\ last' = [Called("append", g, FALSE) EXCEPT !.raised = TRUE]
           /\ ret' = <<>>
           /\ log' = Append(log, SweepFailed(smp.host, g, sid, smp.now_ts, smp.cnt))
    /\ smp' = [pc |-> "append", now_ts |-> smp.now_ts, hosts |-> smp.hosts,
               host |-> smp.host, cnt |-> smp.cnt, targets |-> Tail(smp.targets)]
    /\ UNCHANGED <<now, hnd>>

\* an exception outside the inner try blocks (the listing of the data
\* directory): the outer handler logs it and sleeps 300 seconds
SamplerScanFails ==
    /\ smp.pc = "scan"
    /\ steps < MaxFaults
    /\ steps' = steps + 1
    /\ smp' = Sleeping(BACKOFF)
    /\ log' = <<>>
    /\ UNCHANGED <<files, DEFAULT_CONFIG, now, last, ret, hnd>>

InitFault ==
    /\ files \in {SweepFiles, [SweepFiles EXCEPT !["gA"] = Unreadable]}
    /\ DEFAULT_CONFIG = InitialDefaultConfig
    /\ now = StartTime
    /\ last = NoCall
    /\ ret = <<>>
    /\ steps = 0
    /\ log = <<>>
    /\ hnd = Idle
    /\ smp = [pc |-> "scan"]

NextFault ==
    \/ SamplerScan
    \/ SamplerScanFails
    \/ SamplerProbe
    \/ SamplerAppendRead
    \/ SamplerAppendWrite
    \/ SamplerAppendFails
    \/ SamplerWake
    \/ Corrupt
    \/ Pass

SpecFault == InitFault /\ [][NextFault]_vars

\* the event loop resumes the sampler task whenever the call it awaits has
\* completed, and time passes
SpecFaultFair ==
    /\ SpecFault
    /\ WF_vars(SamplerScan \/ SamplerScanFails)
    /\ WF_vars(SamplerProbe)
    /\ WF_vars(SamplerAppendRead)
    /\ WF_vars(SamplerAppendWrite \/ SamplerAppendFails)
    /\ WF_vars(SamplerWake)
    /\ WF_vars(Pass)

InSweep == smp.pc \in {"scan", "probe", "append", "write"}

SweepOf(ev, g, sid) ==
    {i \in SweepEvents(ev) : log[i].group = g /\ log[i].sid = sid}

\* the point of the sweep is the last entry of the series of (g, sid)
HoldsPoint(g, sid, ts, count) ==
    LET h == HistoryOf(files[g].trends, sid)
    IN  Len(h) > 0 /\ h[Len(h)] = Point(_hour_bucket(ts), count)

\* every host the scan found has been probed once, and the count of every
\* answered probe has gone to every file of that host that can take it
FaultsIsolated ==
    smp.pc = "sleep" =>
        \A t \in SweepEvents("target") :
            /\ Cardinality({i \in SweepEvents("probe") : log[i].host = log[t].host}) = 1
            /\ \A i \in SweepEvents("probe") :
                  (log[i].host = log[t].host /\ log[i].count # 0) =>
                      /\ Cardinality(SweepOf("append", log[t].group, log[t].sid)) = 1
                      /\ \/ SweepOf("failed", log[t].group, log[t].sid) # {}
                         \/ ~IsContainer(files[log[t].group])
                         \/ HoldsPoint(log[t].group, log[t].sid, log[t].ts, log[i].count)

\* C22: a failed probe, an unreadable file or a failed trend write does not
\* keep the other hosts from being probed nor their counts from being written
\* to the other files, and every sweep that has started reaches its sleep.
C22_FaultIsolation == []FaultsIsolated /\ (InSweep ~> smp.pc = "sleep")

\* a finished sweep in which one probe failed and one append failed and left
\* its file unreadable, and a later append of the sweep has its point in its file
C22_Witness ==
    /\ smp.pc = "sleep"
    /\ \E i \in SweepEvents("probe"), f \in SweepEvents("failed"), b \in SweepEvents("append") :
          /\ log[i].count = 0
          /\ f < b
          /\ ~IsContainer(files[log[f].group])
          /\ IsContainer(files[log[b].group])
          /\ HoldsPoint(log[b].group, log[b].sid, log[b].ts, log[b].count)

\* ============================================================ append race
\* One append_trend_point call of the sampler and one of the query handler for
\* server "1" of group gA, both about to start, in every interleaving of their
\* read and write steps. Group gB holds the same series under another host and
\* is written by neither call.
RaceContainer(n, host) ==
    [SeedContainer(n) EXCEPT
       !.servers = <<[key |-> "1", val |-> NewRecord(1, "a", host, StartTime)]>>]

\* the hour of the last stored entry, or the hour after it
RaceTimes(n) ==
    IF n = 0 THEN {StartTime}
    ELSE {StartTime + (n - 1) * HOUR, StartTime + n * HOUR}

InitRace ==
    \E n \in SeedLengths, c1, c2 \in Counts :
        /\ files = [g \in Groups |->
                       IF g = "gA" THEN RaceContainer(n, "h1") ELSE RaceContainer(n, "h2")]
        /\ now \in RaceTimes(n)
        /\ hnd = [pc |-> "append", g |-> "gA", sid |-> "1", info |-> c1]
        /\ smp = [pc |-> "append", now_ts |-> now, hosts |-> <<>>, host |-> "h1",
                  cnt |-> c2, targets |-> <<<<"gA", "1">>>>]
        /\ DEFAULT_CONFIG = InitialDefaultConfig
        /\ last = NoCall
        /\ ret = <<>>
        /\ steps = 0
        /\ log = <<>>

RaceTick ==
    /\ now < StartTime + (MAX_HISTORY + 1) * HOUR
    /\ now' = now + (HOUR \div 2)
    /\ UNCHANGED <<files, DEFAULT_CONFIG, last, ret, steps, log, hnd, smp>>

NextRace ==
    \/ HandlerAppendRead
    \/ HandlerAppendWrite
    \/ SamplerAppendRead
    \/ SamplerAppendWrite
    \/ RaceTick

SpecRace == InitRace /\ [][NextRace]_vars

\* the series both calls found, and the series of gA
RaceBefore == HistoryOf(files["gB"].trends, "1")

RaceSeries == HistoryOf(files["gA"].trends, "1")

\* the entries of the series found, without the hour's, then the hour's entry
RaceExpected(ts, count) ==
    LastN(SelectSeq(RaceBefore, LAMBDA e : e.ts # _hour_bucket(ts))
              \o <<Point(_hour_bucket(ts), count)>>,
          MAX_HISTORY)

\* the step is the write of the call that finishes last
SamplerDone == smp.pc = "probe" \/ (smp.pc = "append" /\ Len(smp.targets) = 0)

LastHandlerWrite == hnd.pc = "write" /\ hnd'.pc = "idle" /\ SamplerDone

LastSamplerWrite == smp.pc = "write" /\ smp'.pc = "append" /\ hnd.pc = "idle"

\* C23: when both calls fall into one hour, after the write of the call that
\* finishes last the series is the one found before both calls with its entry
\* for the hour replaced by (or, if it had none, extended by) one entry that
\* carries the count of that call, trimmed to the most recent 24 entries.
C23_LastWriteWins ==
    [][/\ (LastHandlerWrite /\ _hour_bucket(hnd.ts) = _hour_bucket(smp.now_ts))
            => RaceSeries' = RaceExpected(hnd.ts, hnd.info)
       /\ (LastSamplerWrite /\ _hour_bucket(now) = _hour_bucket(smp.now_ts))
            => RaceSeries' = RaceExpected(smp.now_ts, smp.cnt)]_vars

\* both calls have read the full series, the sampler has written its count for
\* a new hour, and the handler is about to write another count from what it read
C23_Witness ==
    /\ hnd.pc = "write"
    /\ smp.pc = "append"
    /\ Len(smp.targets) = 0
    /\ Len(RaceBefore) = MAX_HISTORY
    /\ hnd.data.trends["1"] = RaceBefore
    /\ RaceSeries # RaceBefore
    /\ _hour_bucket(hnd.ts) = _hour_bucket(smp.now_ts)
    /\ hnd.info # smp.cnt
    /\ RaceBefore[MAX_HISTORY].ts # _hour_bucket(hnd.ts)

\* ------------------------------------------------- acknowledged changes kept
\* the registry part of a container
RegistryPart(f) == [servers |-> f.servers, next_id |-> f.next_id, last_cleanup |-> f.last_cleanup]

\* C24: the write that ends a sampler append_trend_point call leaves the
\* registry part of the persisted container as it is, so that a registry change
\* acknowledged between the call's read and its write is still there afterwards.
C24_NoLostChange ==
    [][(smp.pc = "write" /\ smp'.pc = "append")
          => RegistryPart(files'[Head(smp.targets)[1]]) = RegistryPart(files[Head(smp.targets)[1]])]_vars

\* ------------------------------------------------------------ sampler pacing
\* the last instant of the modelled clock
LastInstant == StartTime + MaxHours * HOUR + HOUR - 5

\* whole seconds from t to the next full hour
UntilNextHour(t) == HOUR - (t % HOUR)

\* the sleep after a completed sweep, the sleep after an exception, and the
\* end of a sleep
PacedSteps ==
    /\ (smp.pc = "probe" /\ smp'.pc = "sleep") =>
          /\ smp'.secs = (IF UntilNextHour(now) > MIN_SLEEP THEN UntilNextHour(now) ELSE MIN_SLEEP)
          /\ smp'.secs >= 10
          /\ smp'.secs <= 3600
          /\ smp'.wake = now + smp'.secs
    /\ (smp.pc = "scan" /\ smp'.pc = "sleep") =>
          /\ smp'.secs = 300
          /\ smp'.wake = now + 300
    /\ (smp.pc = "sleep" /\ smp'.pc # "sleep") =>
          /\ smp'.pc = "scan"
          /\ now >= smp.wake

\* C25: after a completed sweep the sampler sleeps max(10, seconds to the next
\* full hour) seconds, between 10 and 3600; after an exception that escapes the
\* sweep it sleeps 300 seconds; it leaves a sleep only to start the next sweep,
\* not before the sleep is over, and it does start that sweep.
C25_SamplerPacing ==
    /\ [][PacedSteps]_vars
    /\ ((smp.pc = "sleep" /\ smp.wake <= LastInstant) ~> smp.pc = "scan")

\* a sweep that ended five seconds before the full hour sleeps the minimum of
\* ten seconds, after an earlier fault; the sleep is over and the next sweep
\* can start
C25_Witness ==
    /\ smp.pc = "sleep"
    /\ smp.secs = MIN_SLEEP
    /\ smp.wake = StartTime + HOUR + 5
    /\ now >= smp.wake
    /\ steps > 0

\* ========================================================= plugin lifecycle
\* The plugin object is constructed, possibly more than once in the process (a
\* reload constructs the class again); `steps` counts the sampler tasks that
\* create_task has started, none of which ever ends, and `smp` follows the first.
SamplerOff == [pc |-> "off"]

\* MyPlugin.__init__: self._trend_task = None; if getattr(self, "_trend_task",
\* None) is None: self._trend_task = asyncio.create_task(self._bar_data_loop())
Construct ==
    /\ steps < MaxPlugins
    /\ LET self == [_trend_task |-> None]
           start == self._trend_task = None
       IN  /\ steps' = IF start THEN steps + 1 ELSE steps
           /\ ret' = <<[self EXCEPT !._trend_task = IF start THEN steps + 1 ELSE @]>>
           /\ smp' = IF start /\ smp = SamplerOff THEN [pc |-> "scan"] ELSE smp
    /\ last' = Called("construct", "", TRUE)
    /\ UNCHANGED <<files, DEFAULT_CONFIG, now, log, hnd>>

InitPlugin ==
    /\ files = SweepFiles
    /\ DEFAULT_CONFIG = InitialDefaultConfig
    /\ now = StartTime
    /\ last = NoCall
    /\ ret = <<>>
    /\ steps = 0
    /\ log = <<>>
    /\ hnd = Idle
    /\ smp = SamplerOff

NextPlugin ==
    \/ Construct
    \/ SamplerScan
    \/ SamplerProbe
    \/ SamplerAppendRead
    \/ SamplerAppendWrite
    \/ SamplerWake
    \/ Tick

SpecPlugin == InitPlugin /\ [][NextPlugin]_vars

\* the sampler tasks running in the process
SamplerTasks == steps

\* C26: at most one sampler task runs in the process, however often the
\* plugin has been constructed.
C26_SamplerSingleton == SamplerTasks <= 1

\* ------------------------------------------------- cleanup write discipline
\* the ids the call returned
EvictedIds == {ret'[i].id : i \in DOMAIN ret'}

\* C27: an auto_cleanup_servers call that evicts nothing returns an empty list
\* and leaves the container as it was, last_cleanup included; a call that
\* evicts sets last_cleanup to the current time and stores the container
\* without the evicted servers and otherwise as it was.
C27_CleanupWrite ==
    [][\A g \in Groups :
          (last'.op = "cleanup" /\ last'.group = g /\ ~last'.raised /\ AutoCleanupServers(g)) =>
              LET c == AsRead(g)
              IN  IF Len(ret') = 0
                  THEN /\ files'[g] = c
                       /\ IsContainer(files[g]) => files'[g] = files[g]
                  ELSE /\ files'[g].last_cleanup = now
                       /\ EvictedIds \subseteq Keys(c.servers)
                       /\ files'[g].servers =
                             SelectSeq(c.servers, LAMBDA e : e.key \notin EvictedIds)
                       /\ [files'[g] EXCEPT !.servers = c.servers,
                                            !.last_cleanup = c.last_cleanup] = c]_vars

\* a cleanup that evicted nothing, on a container whose last_cleanup is from an
\* earlier cleanup that did evict, with the clock advanced in between
C27_Witness ==
    /\ last.op = "cleanup"
    /\ last.group = "gA"
    /\ ~last.raised
    /\ Len(ret) = 0
    /\ files["gA"].last_cleanup # None
    /\ files["gA"].last_cleanup < now

\* ========================================================= legacy trend fold
\* Containers that still carry the single-series field `trend`, read and
\* written by the trend operations.
LegacyTs == {StartTime, StartTime + 100, StartTime + MAX_HISTORY * HOUR}

LegacyCounts == {5, 7}

LegacyPoints == {Point(t, c) : t \in LegacyTs, c \in LegacyCounts}

LegacyHistories ==
    {<<>>} \cup {<<p>> : p \in LegacyPoints} \cup {<<p, q>> : p, q \in LegacyPoints}

FoldLengths == {0, 1, MAX_HISTORY}

WithLegacyTrend(c, hist) ==
    [k \in DOMAIN c \cup {"trend"} |->
        IF k = "trend" THEN [server_id |-> "1", history |-> hist] ELSE c[k]]

InitFold ==
    /\ \E n \in FoldLengths, hist \in LegacyHistories :
          files = [g \in Groups |->
                      IF g = "gA" THEN WithLegacyTrend(SeedContainer(n), hist) ELSE NoFile]
    /\ DEFAULT_CONFIG = InitialDefaultConfig
    /\ now = StartTime + (MAX_HISTORY + 1) * HOUR
    /\ last = NoCall
    /\ ret = <<>>
    /\ steps = 0
    /\ log = <<>>
    /\ hnd = Idle
    /\ smp = Idle

FoldHistory ==
    \E sid \in {"1", "2"} : Step /\ GetTrendHistory("gA", sid, 0) /\ RegFrame

FoldAppend ==
    \E sid \in {"1", "2"} : Step /\ AppendTrendPoint("gA", sid, now, 1) /\ RegFrame

NextFold == FoldHistory \/ FoldAppend

SpecFold == InitFold /\ [][NextFold]_vars

\* C28: the series that get_trend_history returns from a container with the
\* legacy field `trend` (or from what a later write has made of it) has at most
\* 24 entries, in ascending order, and at most one entry per hour.
C28_LegacyFold ==
    (last.op = "history" /\ ~last.raised) =>
        /\ Len(ret) <= 24
        /\ \A i \in 1..(Len(ret) - 1) : _hour_bucket(ret[i].ts) < _hour_bucket(ret[i + 1].ts)

\* ------------------------------------------------------ fresh history on add
\* C29: right after a successful add_data the series stored under the id of
\* the new server is empty.
C29_FreshHistoryOnAdd ==
    (last.op = "add" /\ last.ok /\ ~last.raised /\ Len(log) > 0) =>
        LET e == log[Len(log)]
        IN  e.ev = "add" => HistoryOf(files[e.group].trends, e.key) = <<>>

\* ========================================================== grace on entry
\* Group files that are still in the legacy format or do not exist yet, at a
\* wall-clock time more than AUTO_CLEANUP_DAYS after the epoch; servers enter
\* through the migration of the first read or through add_data.
InitGrace ==
    /\ files \in {f \in [Groups -> LegacyFiles \cup {NoFile}] : f["gB"] = NoFile}
    /\ DEFAULT_CONFIG = InitialDefaultConfig
    /\ now = RegStart
    /\ last = NoCall
    /\ ret = <<>>
    /\ steps = 0
    /\ log = <<>>
    /\ hnd = Idle
    /\ smp = Idle

GraceClock ==
    /\ Step
    /\ now' \in {now + HOUR, now + AUTO_CLEANUP_DAYS * 24 * HOUR - HOUR}
    /\ UNCHANGED <<files, DEFAULT_CONFIG, last, ret, log, hnd, smp>>

NextGrace ==
    \/ RegAdd
    \/ RegStatus
    \/ RegCleanup
    \/ GraceClock

SpecGrace == InitGrace /\ [][NextGrace]_vars

\* the server entered the registry less than 10 days ago: by the migration this
\* very call performs, or by an add_data that stamped created_time
EnteredRecently(g, e) ==
    \/ is_old_format(files[g])
    \/ e.val.created_time # None /\ e.val.created_time > now - 10 * 24 * 3600

\* C30: auto_cleanup_servers evicts no server that entered the registry less
\* than 10 days before the call.
C30_GraceOnEntry ==
    [][\A g \in Groups :
          (last'.op = "cleanup" /\ last'.group = g /\ ~last'.raised /\ AutoCleanupServers(g)) =>
              \A i \in DOMAIN ret' :
                  ~EnteredRecently(g, [key |-> ret'[i].id,
                                       val |-> Get(AsRead(g).servers, ret'[i].id)])]_vars

\* ============================================================ query command
\* The /mc and /mccleanup commands of main.py on aged registries, one command
\* at a time, interleaved at their awaits with one append_trend_point call of
\* the sampler for server "1" of group gA. /mc reads the container once, runs
\* get_img on every server of that snapshot (probe, update_server_status,
\* append_trend_point, generate_server_info_image) and then auto_cleanup_servers;
\* /mccleanup runs auto_cleanup_servers alone. `hnd` holds the position of the
\* command, what its get_img calls did and what it sent to the user.
MaxCommands == 1

\* a message the command yields: the image chain with n images, the cleanup
\* listing with one line per evicted server, or one of the fixed texts
Reply(kind) == [kind |-> kind, n |-> 0, lines |-> <<>>]

ChainResult(n) == [kind |-> "chain", n |-> n, lines |-> <<>>]

\* the line of the cleanup message for one entry of deleted_servers
CleanupLine(server) ==
    [name |-> server.name, id |-> server.id, host |-> server.host,
     last_success |-> server.last_success_time]

CleanupMessage(deleted) ==
    [kind |-> "cleanup", n |-> 0, lines |-> [i \in DOMAIN deleted |-> CleanupLine(deleted[i])]]

\* datetime.fromtimestamp(server['last_success_time']) raises TypeError on None
FromTimestampRaises(deleted) ==
    \E i \in DOMAIN deleted : deleted[i].last_success_time = None

\* what the command yields once auto_cleanup_servers has returned `deleted`;
\* an exception while the listing is built reaches the handler's outer except
Replies(cmd, imgs, deleted) ==
    IF Len(deleted) > 0
    THEN IF FromTimestampRaises(deleted) THEN <<Reply("error")>>
         ELSE (IF cmd = "mc" /\ imgs > 0 THEN <<ChainResult(imgs)>> ELSE <<>>)
              \o <<CleanupMessage(deleted)>>
    ELSE IF cmd = "mccleanup" THEN <<Reply("nothing")>>
    ELSE IF imgs > 0 THEN <<ChainResult(imgs)>>
    ELSE <<Reply("unavailable")>>

\* the command at the start of its loop over the snapshot `servers`
McRecord(cmd, g, servers) ==
    [pc |-> "probe", cmd |-> cmd, g |-> g, snap |-> servers, todo |-> servers,
     sid |-> "", info |-> 0, seen |-> {}, okset |-> {}, rec |-> <<>>, pt |-> FALSE,
     imgs |-> 0, data |-> InitialDefaultConfig, alias |-> "none", ts |-> 0,
     sent |-> <<>>, evicted |-> <<>>]

McEnded(cmd, g, kind) ==
    [McRecord(cmd, g, <<>>) EXCEPT !.pc = "done", !.sent = <<Reply(kind)>>]

\* get_img has returned: the loop goes on to the next server or ends
NextServer(h) ==
    [h EXCEPT !.pc = IF Len(h.todo) = 0 THEN "cleanup" ELSE "probe",
              !.seen = @ \cup {h.sid}]

McStart ==
    \E g \in Groups, cmd \in {"mc", "mccleanup"} :
        /\ hnd.pc \in {"idle", "done"}
        /\ steps < MaxCommands
        /\ steps' = steps + 1
        /\ IF cmd = "mccleanup"
           THEN /\ hnd' = [McRecord(cmd, g, <<>>) EXCEPT !.pc = "cleanup"]
                /\ UNCHANGED <<files, DEFAULT_CONFIG, last, ret>>
           ELSE IF ReadRaises(files[g])
           THEN Caught("read", g) /\ hnd' = McEnded(cmd, g, "error")
           ELSE LET rd == ReadJson(files[g], DEFAULT_CONFIG)
                IN  /\ Commit(g, rd, rd.data, FALSE)
                    /\ last' = Called("read", g, TRUE)
                    /\ ret' = <<>>
                    /\ hnd' = IF Len(rd.data.servers) = 0
                              THEN McEnded(cmd, g, "hint")
                              ELSE McRecord(cmd, g, rd.data.servers)
        /\ UNCHANGED <<now, log, smp>>

\* info = await get_server_status(host) for the next server of the snapshot
McProbe ==
    \E info \in Probes :
        /\ hnd.pc = "probe"
        /\ hnd' = [hnd EXCEPT !.pc = "status", !.sid = Head(hnd.todo).key,
                              !.todo = Tail(@), !.info = info, !.rec = <<>>, !.pt = FALSE]
        /\ UNCHANGED <<files, DEFAULT_CONFIG, now, last, ret, steps, log, smp>>

\* `rec` lists the status outcomes that get_img recorded for the current server
Recorded(h, success, ok) == [h EXCEPT !.rec = IF ok THEN Append(@, success) ELSE @]

McStatus ==
    /\ hnd.pc = "status"
    /\ UpdateServerStatus(hnd.g, hnd.sid, hnd.info # 0)
    /\ hnd' = IF hnd.info = 0
              THEN NextServer(Recorded(hnd, FALSE, last'.ok))
              ELSE [Recorded(hnd, TRUE, last'.ok) EXCEPT !.pc = "append",
                                                         !.okset = @ \cup {hnd.sid}]
    /\ UNCHANGED <<now, steps, log, smp>>

McAppendRead ==
    LET rd == ReadJson(files[hnd.g], DEFAULT_CONFIG)
    IN  /\ hnd.pc = "append"
        /\ IF ReadRaises(files[hnd.g])
           THEN Caught("append", hnd.g) /\ hnd' = [hnd EXCEPT !.pc = "image"]
           ELSE /\ AppendRead(hnd.g)
                /\ hnd' = [hnd EXCEPT !.pc = "write", !.ts = now, !.data = rd.data,
                                      !.alias = rd.alias]
                /\ UNCHANGED <<last, ret>>
        /\ UNCHANGED <<now, steps, log, smp>>

McAppendWrite ==
    /\ hnd.pc = "write"
    /\ AppendWrite(hnd.g, hnd.sid, hnd.ts, hnd.info, hnd.data, hnd.alias)
    /\ hnd' = [hnd EXCEPT !.pc = "image", !.pt = TRUE]
    /\ UNCHANGED <<now, steps, log, smp>>

\* generate_server_info_image returns the image or raises (an icon that
\* thumbnail() leaves smaller than the 64x64 mask makes paste() raise); the
\* except clause of get_img then calls update_server_status(..., False)
McImage ==
    \E raised \in BOOLEAN :
        /\ hnd.pc = "image"
        /\ IF raised
           THEN /\ UpdateServerStatus(hnd.g, hnd.sid, FALSE)
                /\ hnd' = NextServer(Recorded(hnd, FALSE, last'.ok))
           ELSE /\ hnd' = NextServer([hnd EXCEPT !.imgs = @ + 1])
                /\ UNCHANGED <<files, DEFAULT_CONFIG, last, ret>>
        /\ UNCHANGED <<now, steps, log, smp>>

\* deleted_servers = await auto_cleanup_servers(json_path), then the replies
McCleanup ==
    /\ hnd.pc = "cleanup"
    /\ AutoCleanupServers(hnd.g)
    /\ hnd' = [hnd EXCEPT !.pc = "done", !.evicted = ret',
                          !.sent = Replies(hnd.cmd, hnd.imgs, ret')]
    /\ UNCHANGED <<now, steps, log, smp>>

McTick ==
    /\ now < RegStart + MaxHours * HOUR
    /\ now' = now + HOUR
    /\ UNCHANGED <<files, DEFAULT_CONFIG, last, ret, steps, log, hnd, smp>>

InitMc ==
    /\ files \in {f \in [Groups -> AgedContainers \cup {NoFile}] :
                     f["gA"] # NoFile /\ f["gB"] = NoFile}
    /\ DEFAULT_CONFIG = InitialDefaultConfig
    /\ now = RegStart
    /\ last = NoCall
    /\ ret = <<>>
    /\ steps = 0
    /\ log = <<>>
    /\ hnd = Idle
    /\ smp = [pc |-> "append", now_ts |-> RegStart, hosts |-> <<>>, host |-> "h1",
              cnt |-> 1, targets |-> <<<<"gA", "1">>>>]

NextMc ==
    \/ McStart
    \/ McProbe
    \/ McStatus
    \/ McAppendRead
    \/ McAppendWrite
    \/ McImage
    \/ McCleanup
    \/ SamplerAppendRead
    \/ SamplerAppendWrite
    \/ McTick

SpecMc == InitMc /\ [][NextMc]_vars

\* C31: in a /mc invocation auto_cleanup_servers runs after the probe and the
\* status update of every server of the group, and no server whose probe
\* succeeded in the invocation is among the servers its cleanup evicts, also
\* with the sampler writing to the same container.
C31_CleanupOrdering ==
    /\ (hnd.pc = "cleanup" /\ hnd.cmd = "mc") =>
          (Len(hnd.todo) = 0 /\ hnd.seen = Keys(hnd.snap))
    /\ (hnd.pc = "done" /\ hnd.cmd = "mc") =>
          \A i \in DOMAIN hnd.evicted : hnd.evicted[i].id \notin hnd.okset

\* C32: every get_img call of /mc records exactly one status outcome for its
\* server, success iff the probe returned a result; in particular no failure is
\* recorded (failed_count incremented) for a call whose probe succeeded, and a
\* trend point is appended only after a successful probe.
C32_OneStatusOutcome ==
    (hnd.pc \in {"probe", "cleanup", "done"} /\ hnd.cmd = "mc" /\ hnd.sid # "") =>
        /\ hnd.rec = <<hnd.info # 0>>
        /\ hnd.pt => hnd.info # 0

\* C38: whenever the cleanup run by /mccleanup or /mc evicts at least one
\* server, the command sends a message listing every evicted server (name, id,
\* host, last success time), and /mc also sends the status images it produced;
\* this includes records whose last_success_time is null or absent.
C38_CleanupReporting ==
    (hnd.pc = "done" /\ Len(hnd.evicted) > 0) =>
        /\ \E i \in DOMAIN hnd.sent : hnd.sent[i] = CleanupMessage(hnd.evicted)
        /\ (hnd.cmd = "mc" /\ hnd.imgs > 0) =>
              \E i \in DOMAIN hnd.sent : hnd.sent[i] = ChainResult(hnd.imgs)

\* ======================================================= registry commands
\* The commands /mcadd, /mcup and /mcdel of main.py, one command at a time, on
\* registries that start empty. A command argument is a token of the chat
\* message, here a sequence of characters without white space; the host is
\* stored as the string of those characters.
Letters ==
    {"a", "b", "c", "d", "e", "f", "g", "h", "i", "j", "k", "l", "m",
     "n", "o", "p", "q", "r", "s", "t", "u", "v", "w", "x", "y", "z",
     "A", "B", "C", "D", "E", "F", "G", "H", "I", "J", "K", "L", "M",
     "N", "O", "P", "Q", "R", "S", "T", "U", "V", "W", "X", "Y", "Z"}

Digits == {"0", "1", "2", "3", "4", "5", "6", "7", "8", "9"}

\* the character class [a-zA-Z0-9.:-]
HostClass == Letters \cup Digits \cup {".", ":", "-"}

\* a validator that accepts every non-empty token
HostMatches_Any(chars) == Len(chars) > 0

\* re.match(r'^[a-zA-Z0-9.:-]+$', host): one or more characters of the class up
\* to the end of the string, where `$` also matches before a final newline
HostMatches(chars) ==
    LET body == IF Len(chars) > 1 /\ chars[Len(chars)] = "\n"
                THEN SubSeq(chars, 1, Len(chars) - 1) ELSE chars
    IN  Len(body) > 0 /\ \A i \in DOMAIN body : body[i] \in HostClass

\* the string made of the characters
RECURSIVE Joined(_)
Joined(chars) == IF Len(chars) = 0 THEN "" ELSE Head(chars) \o Joined(Tail(chars))

HostInputs == {<<"h", "1">>, <<"h", "2">>, <<"h", "_">>}

CmdNames == {"a", "b"}

\* the command with its arguments; `info` is the answer of the pre-probe (0 for
\* none), `reply` the text the command sent
Command(cmd, g, name, host, info, force) ==
    [pc |-> "store", cmd |-> cmd, g |-> g, name |-> name, host |-> host,
     info |-> info, force |-> force, reply |-> ""]

Ended(c, reply) == [c EXCEPT !.pc = "done", !.reply = reply]

\* the command returns before it touches the group file
Declined(c, reply) ==
    /\ hnd' = Ended(c, reply)
    /\ UNCHANGED <<files, DEFAULT_CONFIG, last, ret>>

HostStored(data, host) == \E i \in DOMAIN data.servers : data.servers[i].val.host = host

\* /mcadd up to its add_data call: validator, pre-probe, read_json and the
\* search for a server with the same host
AddCheck(g, name, host, info, force) ==
    LET c == Command("mcadd", g, name, host, info, force)
        rd == ReadJson(files[g], DEFAULT_CONFIG)
    IN  IF ~HostMatches(host) THEN Declined(c, "bad_host")
        ELSE IF info = 0 /\ ~force THEN Declined(c, "probe_failed")
        ELSE IF ReadRaises(files[g])
        THEN Caught("read", g) /\ hnd' = Ended(c, "check_error")
        ELSE /\ Commit(g, rd, rd.data, FALSE)
             /\ last' = Called("read", g, TRUE)
             /\ ret' = <<>>
             /\ hnd' = IF HostStored(rd.data, Joined(host))
                       THEN Ended(c, "host_exists") ELSE c

\* the add_data call of /mcadd and the reply
AddStore ==
    /\ AddData(hnd.g, hnd.name, Joined(hnd.host))
    /\ hnd' = Ended(hnd, IF last'.ok THEN "added" ELSE "not_added")

\* /mcdel identifier
Del(g, identifier) ==
    /\ DelData(g, identifier)
    /\ hnd' = Ended(Command("mcdel", g, identifier, <<>>, 0, FALSE),
                    IF last'.ok THEN "deleted" ELSE "not_deleted")

CmdAddCheck ==
    \E g \in Groups, name \in CmdNames, host \in HostInputs, info \in {0, 1}, force \in BOOLEAN :
        /\ hnd.pc \in {"idle", "done"}
        /\ Step
        /\ AddCheck(g, name, host, info, force)
        /\ UNCHANGED <<now, log, smp>>

CmdAddStore ==
    /\ hnd.pc = "store"
    /\ AddStore
    /\ UNCHANGED <<now, steps, log, smp>>

\* /mcup identifier [new_name] [new_host]: the arguments are positional, so a
\* new host comes with a new name
CmdUp ==
    \E g \in Groups, identifier \in {"1", "2", "a"}, new_name \in CmdNames \cup {NoArg},
       new_host \in HostInputs \cup {<<>>} :
        LET c == Command("mcup", g, new_name, new_host, 0, FALSE)
        IN  /\ hnd.pc \in {"idle", "done"}
            /\ new_name = NoArg => new_host = <<>>
            /\ Step
            /\ IF new_name = NoArg /\ new_host = <<>> THEN Declined(c, "need_info")
               ELSE IF new_host # <<>> /\ ~HostMatches(new_host) THEN Declined(c, "bad_host")
               ELSE /\ UpdateData(g, identifier, new_name,
                                  IF new_host = <<>> THEN NoArg ELSE Joined(new_host))
                    /\ hnd' = Ended(c, IF last'.ok THEN "updated" ELSE "not_updated")
            /\ UNCHANGED <<now, log, smp>>

CmdDel ==
    \E g \in Groups, identifier \in {"1", "2", "a"} :
        /\ hnd.pc \in {"idle", "done"}
        /\ Step
        /\ Del(g, identifier)
        /\ UNCHANGED <<now, log, smp>>

InitCmd ==
    /\ files = [g \in Groups |-> NoFile]
    /\ DEFAULT_CONFIG = InitialDefaultConfig
    /\ now = StartTime
    /\ last = NoCall
    /\ ret = <<>>
    /\ steps = 0
    /\ log = <<>>
    /\ hnd = Idle
    /\ smp = Idle

NextCmd ==
    \/ CmdAddCheck
    \/ CmdAddStore
    \/ CmdUp
    \/ CmdDel

SpecCmd == InitCmd /\ [][NextCmd]_vars

\* C33: starting from empty registries, after any sequence of /mcadd, /mcup and
\* /mcdel commands no two servers of one group registry have the same host.
C33_HostUniqueness ==
    \A g \in Groups :
        IsContainer(files[g]) =>
            \A i, j \in DOMAIN files[g].servers :
                i # j => files[g].servers[i].val.host # files[g].servers[j].val.host

\* the host consists solely of letters, digits, '.', ':' and '-'
AllowedOnly(chars) == Len(chars) > 0 /\ \A i \in DOMAIN chars : chars[i] \in HostClass

\* the ids stored in a group file
StoredIds(f) == IF IsContainer(f) THEN Keys(f.servers) ELSE {}

\* a command starts with this step
CommandStarts == hnd.pc \in {"idle", "done"} /\ steps' = steps + 1

\* C34: /mcadd persists a new server only if the host consists solely of
\* letters, digits, '.', ':' and '-' and the pre-probe answered or force is
\* true; when /mcadd declines for an invalid host or a failed pre-probe, and
\* when /mcup declines for a new_host outside the allowlist or for missing both
\* new_name and new_host, the group files are unchanged and the command ends
\* with its plain reply (no exception leaves the handler).
C34_CommandGuards ==
    [][/\ \A g \in Groups :
             ~(StoredIds(files'[g]) \subseteq StoredIds(files[g])) =>
                 /\ hnd'.cmd = "mcadd"
                 /\ AllowedOnly(hnd'.host)
                 /\ hnd'.info # 0 \/ hnd'.force
       /\ (CommandStarts /\ hnd'.cmd = "mcadd"
             /\ (~AllowedOnly(hnd'.host) \/ (hnd'.info = 0 /\ ~hnd'.force))) =>
                 /\ files' = files
                 /\ hnd'.pc = "done"
                 /\ hnd'.reply = IF ~AllowedOnly(hnd'.host) THEN "bad_host" ELSE "probe_failed"
       /\ (CommandStarts /\ hnd'.cmd = "mcup"
             /\ (    (hnd'.name = NoArg /\ hnd'.host = <<>>)
                  \/ (hnd'.host # <<>> /\ ~AllowedOnly(hnd'.host)))) =>
                 /\ files' = files
                 /\ hnd'.pc = "done"
                 /\ hnd'.reply = IF hnd'.name = NoArg /\ hnd'.host = <<>>
                                 THEN "need_info" ELSE "bad_host"]_vars

\* /mcadd has declined a host outside the allowlist on a registry with servers
C34_Witness ==
    /\ hnd.pc = "done"
    /\ hnd.cmd = "mcadd"
    /\ hnd.reply = "bad_host"
    /\ ~AllowedOnly(hnd.host)
    /\ StoredIds(files[hnd.g]) # {}

\* ------------------------------------------------------- chart window clamp
\* C35: for every non-empty history and every hours value the timeline has at
\* most max(1, hours) ticks; when the history holds an hour bucket, the last
\* tick is the largest bucket present, the first tick is the larger of the
\* smallest bucket present and the last tick minus (max(1, hours) - 1) hours,
\* and no entry older than the first tick is drawn.
C35_ChartWindowClamp ==
    (hnd.pc = "rendered" /\ Len(hnd.hist) > 0) =>
        LET window == IF hnd.hours > 1 THEN hnd.hours ELSE 1
            n == Len(ret.timeline)
            buckets == {HourOf(hnd.hist[i]) : i \in Usable(hnd.hist)}
        IN  /\ n <= window
            /\ Len(ret.counts) = n
            /\ buckets # {} =>
                  /\ n >= 1
                  /\ ret.timeline[n] = SetMax(buckets)
                  /\ ret.timeline[1] =
                        (IF SetMin(buckets) > ret.timeline[n] - (window - 1) * 3600
                         THEN SetMin(buckets) ELSE ret.timeline[n] - (window - 1) * 3600)
                  /\ \A b \in buckets :
                        b < ret.timeline[1] => \A i \in 1..n : ret.timeline[i] # b

\* a history of three hours drawn with hours = 2: the oldest entry is left out
C35_Witness ==
    /\ hnd.pc = "rendered"
    /\ hnd.hours = 2
    /\ \E i \in DOMAIN hnd.hist : hnd.hist[i].ts = ChartBase
    /\ ret.timeline = <<ChartBase + 2 * HOUR, ChartBase + 3 * HOUR>>

\* ---------------------------------------------------- vertical axis maximum
\* the largest count of the ticks drawn
MaxCount(counts) == SetMax({counts[i] : i \in DOMAIN counts})

\* C36: for tick counts with maximum m >= 0 the axis maximum is the smallest
\* multiple of 5 that is >= m + 1 and it is at least 5; it is strictly greater
\* than m and at most m + 5, so the tallest bar ends below the top of the plot.
C36_AxisMaximum ==
    (hnd.pc = "rendered" /\ ~ret.blank /\ ~ret.raised) =>
        LET m == MaxCount(ret.counts)
        IN  /\ m >= 0
            /\ ret.y_max % 5 = 0
            /\ ret.y_max >= m + 1
            /\ ret.y_max - 5 < m + 1
            /\ ret.y_max >= 5
            /\ ret.y_max > m
            /\ ret.y_max <= m + 5

\* a chart whose tallest bar is 5: the axis goes up to 10
C36_Witness ==
    /\ hnd.pc = "rendered"
    /\ ~ret.blank
    /\ MaxCount(ret.counts) = 5
    /\ ret.y_max = 10

\* ============================================================ data command
\* The /mcdata command of main.py on a registry whose server "3" is named "2":
\* the argument parsing, the clamp of hours and the calls the command makes
\* with the clamped value. An argument is a token of the chat message.
DigitOrder == <<"0", "1", "2", "3", "4", "5", "6", "7", "8", "9">>

\* str.isdigit() on a token
IsDigits(chars) == Len(chars) > 0 /\ \A i \in DOMAIN chars : chars[i] \in Digits

DigitValue(c) == (CHOOSE i \in DOMAIN DigitOrder : DigitOrder[i] = c) - 1

\* int(ident_str) for a token of decimal digits
RECURSIVE IntOf(_)
IntOf(chars) ==
    IF Len(chars) = 0 THEN 0
    ELSE 10 * IntOf(SubSeq(chars, 1, Len(chars) - 1)) + DigitValue(chars[Len(chars)])

\* a clamp that only caps the value
hours_clamp_UpperOnly(hours) == IF hours > 168 THEN 168 ELSE hours

\* hours = max(1, min(168, hours))
hours_clamp(hours) ==
    LET capped == IF hours > 168 THEN 168 ELSE hours
    IN  IF capped < 1 THEN 1 ELSE capped

DataContainer ==
    [InitialDefaultConfig EXCEPT
       !.next_id = 4,
       !.servers = <<[key |-> "1", val |-> NewRecord(1, "a", "h1", StartTime)],
                     [key |-> "3", val |-> NewRecord(3, "2", "h2", StartTime)]>>,
       !.trends = "1" :> SeedSeries(MaxChartLen)]

\* the identifier token, absent as <<>>
DataArgs == {<<>>, <<"2">>, <<"3">>, <<"9">>, <<"0">>, <<"2", "0", "0">>, <<"a">>, <<"b">>}

\* the hours argument; 24 is also its default
DataHours == {-1, 0, 1, MAX_HISTORY, 7 * MAX_HISTORY, 7 * MAX_HISTORY + 1}

\* a call of a store function or of the renderer with the hours it was given
DataCall(fn, sid, hours) == [fn |-> fn, sid |-> sid, hours |-> hours]

\* the servers of the all-servers loop that answer the probe, in stored order
Reachable(servers, up) == SelectSeq(servers, LAMBDA e : e.key \in up)

\* the argument parsing: the identifier and the hours the command goes on with
ParsedArgs(data, arg, hours) ==
    IF arg # <<>> /\ IsDigits(arg) /\ Resolve(data, Joined(arg)) = NoArg
    THEN [identifier |-> NoArg, hours |-> hours_clamp(IntOf(arg))]
    ELSE [identifier |-> IF arg = <<>> THEN NoArg ELSE Joined(arg),
          hours |-> hours_clamp(hours)]

\* the calls of the single-server branch and its reply
SingleMode(data, identifier, hours, up) ==
    LET sid == Resolve(data, identifier)
    IN  IF sid = NoArg THEN [calls |-> <<>>, reply |-> "not_found"]
        ELSE IF sid \notin up THEN [calls |-> <<>>, reply |-> "unreachable"]
        ELSE [calls |-> <<DataCall("get_trend_history", sid, hours),
                          DataCall("generate_bar_chart_image", sid, hours)>>,
              reply |-> "images"]

\* the calls of the all-servers branch and its reply
AllMode(data, hours, up) ==
    LET shown == Reachable(data.servers, up)
    IN  [calls |-> <<DataCall("get_all_trend_histories", NoArg, hours)>>
                   \o [i \in DOMAIN shown |->
                         DataCall("generate_bar_chart_image", shown[i].key, hours)],
         reply |-> IF Len(shown) > 0 THEN "images" ELSE "no_data"]

McData ==
    \E g \in Groups, arg \in DataArgs, hours \in DataHours, up \in SUBSET {"1", "3"} :
        LET rd == ReadJson(files[g], DEFAULT_CONFIG)
            c == [pc |-> "done", cmd |-> "mcdata", g |-> g, arg |-> arg, hours_in |-> hours,
                  identifier |-> NoArg, hours |-> hours, calls |-> <<>>, reply |-> ""]
            parsed == ParsedArgs(rd.data, arg, hours)
            out == IF parsed.identifier # NoArg /\ parsed.identifier # ""
                   THEN SingleMode(rd.data, parsed.identifier, parsed.hours, up)
                   ELSE AllMode(rd.data, parsed.hours, up)
        IN  /\ hnd.pc \in {"idle", "done"}
            /\ Step
            /\ IF ReadRaises(files[g])
               THEN Caught("servers", g) /\ hnd' = [c EXCEPT !.reply = "no_servers"]
               ELSE /\ Commit(g, rd, rd.data, FALSE)
                    /\ last' = Called("servers", g, TRUE)
                    /\ ret' = <<>>
                    /\ hnd' = IF Len(rd.data.servers) = 0
                              THEN [c EXCEPT !.reply = "no_servers"]
                              ELSE [c EXCEPT !.identifier = parsed.identifier,
                                             !.hours = parsed.hours,
                                             !.calls = out.calls,
                                             !.reply = out.reply]
            /\ UNCHANGED <<now, log, smp>>

InitData ==
    /\ files = [g \in Groups |-> IF g = "gA" THEN DataContainer ELSE NoFile]
    /\ DEFAULT_CONFIG = InitialDefaultConfig
    /\ now = StartTime
    /\ last = NoCall
    /\ ret = <<>>
    /\ steps = 0
    /\ log = <<>>
    /\ hnd = Idle
    /\ smp = Idle

NextData == McData

SpecData == InitData /\ [][NextData]_vars

EverStored(fs) == UNION {{<<g, k>> : k \in StoredIds(fs[g])} : g \in Groups}

Seen == log' = log \cup EverStored(files')

\* a sweep that writes every sample to every group file
RECURSIVE KeyTargets_AllFiles(_, _, _)
KeyTargets_AllFiles(fs, g, servers) ==
    LET there == SelectSeq(GroupOrder, LAMBDA h : fs[h] # NoFile)
    IN  IF Len(servers) = 0 THEN <<>>
        ELSE [i \in DOMAIN there |-> <<there[i], Head(servers).key>>]
             \o KeyTargets_AllFiles(fs, g, Tail(servers))

\* the (json_path, sid) pairs the scan takes from the servers of one file
RECURSIVE KeyTargets(_, _, _)
KeyTargets(fs, g, servers) ==
    IF Len(servers) = 0 THEN <<>>
    ELSE (IF Head(servers).val.host # "" THEN <<<<g, Head(servers).key>>>> ELSE <<>>)
         \o KeyTargets(fs, g, Tail(servers))

\* the scan of _bar_data_loop: read_json on every file of the data directory
RECURSIVE ScanFiles(_, _, _, _)
ScanFiles(gi, fs, dc, targets) ==
    IF gi > Len(GroupOrder) THEN [files |-> fs, dc |-> dc, targets |-> targets]
    ELSE LET g == GroupOrder[gi]
             rd == ReadJson(fs[g], dc)
         IN  IF fs[g] = NoFile \/ ReadRaises(fs[g])
             THEN ScanFiles(gi + 1, fs, dc, targets)
             ELSE ScanFiles(gi + 1, [fs EXCEPT ![g] = rd.file], rd.dc,
                            targets \o KeyTargets([fs EXCEPT ![g] = rd.file], g,
                                                  rd.data.servers))

KeysScan ==
    LET scan == ScanFiles(1, files, DEFAULT_CONFIG, <<>>)
    IN  /\ smp.pc = "scan"
        /\ files' = scan.files
        /\ DEFAULT_CONFIG' = scan.dc
        /\ smp' = [pc |-> "append", targets |-> scan.targets]
        /\ Seen
        /\ UNCHANGED <<now, last, ret, steps, hnd>>

\* the probe of the target's host and, when it answers, append_trend_point;
\* after the last target the loop sleeps and scans again
KeysSample ==
    /\ smp.pc = "append"
    /\ IF Len(smp.targets) = 0
       THEN smp' = [pc |-> "scan"] /\ UNCHANGED <<files, DEFAULT_CONFIG, last, ret>>
       ELSE /\ smp' = [smp EXCEPT !.targets = Tail(@)]
            /\ \E answered \in BOOLEAN :
                  IF answered
                  THEN AppendTrendPoint(Head(smp.targets)[1], Head(smp.targets)[2], now, 1)
                  ELSE UNCHANGED <<files, DEFAULT_CONFIG, last, ret>>
    /\ Seen
    /\ UNCHANGED <<now, steps, hnd>>

KeysAddCheck ==
    \E g \in Groups, host \in {<<"h", "1">>, <<"h", "2">>} :
        /\ hnd.pc \in {"idle", "done"}
        /\ Step
        /\ AddCheck(g, "a", host, 1, FALSE)
        /\ Seen
        /\ UNCHANGED <<now, smp>>

KeysAddStore ==
    /\ hnd.pc = "store"
    /\ AddStore
    /\ Seen
    /\ UNCHANGED <<now, steps, smp>>

KeysDel ==
    \E g \in Groups, identifier \in {"1", "2"} :
        /\ hnd.pc \in {"idle", "done"}
        /\ Step
        /\ Del(g, identifier)
        /\ Seen
        /\ UNCHANGED <<now, smp>>

\* /mc between two get_img calls: the next server of the snapshot or the cleanup
QueryNext(h, todo) ==
    [pc |-> IF Len(todo) = 0 THEN "qcleanup" ELSE "query", cmd |-> "mc", g |-> h.g,
     todo |-> todo, sid |-> ""]

\* /mc: read_json and the snapshot of the servers
KeysQuery ==
    \E g \in Groups :
        LET rd == ReadJson(files[g], DEFAULT_CONFIG)
        IN  /\ hnd.pc \in {"idle", "done"}
            /\ Step
            /\ ~ReadRaises(files[g])
            /\ Commit(g, rd, rd.data, FALSE)
            /\ last' = Called("read", g, TRUE)
            /\ ret' = <<>>
            /\ hnd' = IF Len(rd.data.servers) = 0
                      THEN [pc |-> "done", cmd |-> "mc", g |-> g, todo |-> <<>>, sid |-> ""]
                      ELSE [pc |-> "query", cmd |-> "mc", g |-> g,
                            todo |-> [i \in DOMAIN rd.data.servers |-> rd.data.servers[i].key],
                            sid |-> ""]
            /\ Seen
            /\ UNCHANGED <<now, smp>>

\* get_img: the probe and update_server_status for the next server
KeysQueryStatus ==
    \E answered \in BOOLEAN :
        /\ hnd.pc = "query"
        /\ UpdateServerStatus(hnd.g, Head(hnd.todo), answered)
        /\ hnd' = IF answered
                  THEN [hnd EXCEPT !.pc = "qappend", !.sid = Head(hnd.todo), !.todo = Tail(@)]
                  ELSE QueryNext(hnd, Tail(hnd.todo))
        /\ Seen
        /\ UNCHANGED <<now, steps, smp>>

\* get_img: append_trend_point(json_path, str(server_id), now, plays_online)
KeysQueryAppend ==
    /\ hnd.pc = "qappend"
    /\ AppendTrendPoint(hnd.g, hnd.sid, now, 1)
    /\ hnd' = QueryNext(hnd, hnd.todo)
    /\ Seen
    /\ UNCHANGED <<now, steps, smp>>

KeysQueryCleanup ==
    /\ hnd.pc = "qcleanup"
    /\ AutoCleanupServers(hnd.g)
    /\ hnd' = [hnd EXCEPT !.pc = "done"]
    /\ Seen
    /\ UNCHANGED <<now, steps, smp>>

InitKeys ==
    /\ files \in {f \in [Groups -> LegacyFiles \cup {NoFile}] : f["gB"] = NoFile}
    /\ DEFAULT_CONFIG = InitialDefaultConfig
    /\ now = RegStart
    /\ last = NoCall
    /\ ret = <<>>
    /\ steps = 0
    /\ log = {}
    /\ hnd = Idle
    /\ smp = [pc |-> "scan"]

NextKeys ==
    \/ KeysAddCheck
    \/ KeysAddStore
    \/ KeysDel
    \/ KeysQuery
    \/ KeysQueryStatus
    \/ KeysQueryAppend
    \/ KeysQueryCleanup
    \/ KeysScan
    \/ KeysSample

SpecKeys == InitKeys /\ [][NextKeys]_vars

\* C39: every key of `trends` with a non-empty series is the id of a server
\* that is, or at some earlier time was, in the `servers` mapping of the same
\* container.
C39_TrendKeysBelong ==
    \A g \in Groups :
        IsContainer(files[g]) =>
            \A k \in DOMAIN files[g].trends :
                Len(files[g].trends[k]) > 0 => <<g, k>> \in log

\* a series that the sampler wrote for a server removed after the scan
C39_Witness ==
    \E g \in Groups :
        /\ IsContainer(files[g])
        /\ \E k \in DOMAIN files[g].trends :
              /\ Len(files[g].trends[k]) > 0
              /\ k \notin StoredIds(files[g])
              /\ <<g, k>> \in log
        /\ last.op = "append"

====
